---- MODULE Spec2Model ----
(***************************************************************************)
(* Model of the serial command/response engine of the Bramble hub API      *)
(* (src/api/serial_interface.py): the background reader loop, the line     *)
(* router, the push handlers and send_command with its completion          *)
(* predicates; of the write buffer and the inserts of the sensor database  *)
(* (src/api/database.py); and of the queued hub command task               *)
(* (src/api/command_queue.py).                                             *)
(*                                                                         *)
(* Time is counted in ticks of 0.1 s.  A statement of the code takes no    *)
(* time; time passes only while a caller is blocked in                     *)
(* response_queue.get(timeout=0.1).                                        *)
(***************************************************************************)
EXTENDS Integers, Sequences, FiniteSets, TLC

VARIABLES
    serial_open,      \* self.serial is set and self.serial.is_open
    running,          \* self.running
    reader_pc,        \* "loop" while _read_loop runs, "exited" once it returned
    in_waiting,       \* bytes received on the link and not yet read (a string)
    buffer,           \* _read_loop's local line buffer (a string)
    response_queue,   \* self.response_queue: a FIFO of lines
    command_lock,     \* holder of self.command_lock, or Free
    batch_state,      \* self._batch_state
    has_db,           \* self.database is configured
    db,               \* rows of sensor_readings, keyed by (device_id, timestamp)
    conn,             \* the database's connection: "open", "none" or "deadlock"
    nodes_table,      \* rows of nodes: device_id -> total_readings, last_seen_at
    inserting,        \* per storage thread: position inside insert_reading
    tx,               \* every line written to the link, in write order
    pc,               \* per caller: position inside send_command
    command,          \* per caller: the command argument
    timeout,          \* per caller: the timeout argument, in ticks
    responses,        \* per caller: the local list `responses`
    elapsed,          \* per caller: time.time() - start_time, in ticks
    waited,           \* per caller: time spent in the current queue.get
    result,           \* per caller: outcome of the last finished call
    calls,            \* per caller: number of send_command calls started
    sent,             \* history: the lines the hub has sent so far, in order
    routed,           \* history: the lines the reader's last iteration handled
    quiet_for,        \* history: per caller, ticks since its call last received a line
    late,             \* history: lines sent after a call timed out, before the next began
    discarded,        \* history: lines removed by the drain of some call
    write_buffer,     \* the WriteBuffer: buffer, max_size, flush_interval, last_flush
    clock,            \* time.time() as the WriteBuffer and the task queue read it
    flushes,          \* history: how many lists were handed to insert_batch, and the last
    last_op,          \* history: the last storage operation and what it did
    task,             \* the queued send_hub_command task
    disconnects,      \* history: the disconnect() calls that returned
    order             \* history: the order callers blocked and were served in

vars == <<serial_open, running, reader_pc, in_waiting, buffer, response_queue,
          command_lock, batch_state, has_db, db, tx, pc, command, timeout,
          responses, elapsed, waited, result, calls, sent, routed, quiet_for, late,
          discarded, write_buffer, clock, flushes, last_op, task, disconnects, order,
          conn, nodes_table, inserting>>

----------------------------------------------------------------------------
(* Bounds of the model. *)

\* The hub sends at most this many lines in one behaviour.
MaxHubLines == 2
\* Each caller starts at most this many send_command calls.
MaxCalls == 1
\* The hub sends at most this many lines in answer to a list command.
MaxItemLines == 3
\* A caller that calls again starts at most this many calls.
MaxRecalls == 2
\* The hub sends at most this many lines of a batch transfer.
MaxBatchLines == 4
\* The two timeout arguments callers pass, in ticks (0.2 s and 0.7 s).
ShortTimeout == 2
LongTimeout == 7
\* A WriteBuffer is built with a max_size of at most this many readings.
MaxSize == 3
\* A WriteBuffer is built with a flush_interval of at most this many ticks.
MaxInterval == 2
\* The clock the WriteBuffer and the task queue read runs up to this tick.
MaxClock == 2
\* add is called only while fewer than this many flushes have happened.
MaxFlushes == 2
\* disconnect is called at most this many times on an idle interface.
MaxDisconnects == 3
\* The task queue's clock runs up to this tick, and on while a retry is due.
MaxTaskClock == 7
\* A thread hands insert_batch a list of at most this many readings.
MaxListLen == 2

(* Program constants, in ticks of 0.1 s. *)

\* response_queue.get(timeout=0.1)
PollTicks == 1
\* (time.time() - start_time) > 0.5
QuietFloorTicks == 5

----------------------------------------------------------------------------
(* Strings: Python's str methods used by the code. *)

NL == "\n"
Whitespace == {" ", "\t", "\r", NL}
Digits == <<"0", "1", "2", "3", "4", "5", "6", "7", "8", "9">>

\* s[i:] for a 1-based i
From(s, i) == SubSeq(s, i, Len(s))

\* str.startswith
StartsWith(s, p) == Len(s) >= Len(p) /\ SubSeq(s, 1, Len(p)) = p

\* index of the first occurrence of character ch in s at or after i, 0 if none
RECURSIVE Find(_, _, _)
Find(s, ch, i) ==
    IF i > Len(s) THEN 0
    ELSE IF SubSeq(s, i, i) = ch THEN i
    ELSE Find(s, ch, i + 1)

RECURSIVE LStrip(_)
LStrip(s) ==
    IF Len(s) > 0 /\ SubSeq(s, 1, 1) \in Whitespace THEN LStrip(From(s, 2)) ELSE s

RECURSIVE RStrip(_)
RStrip(s) ==
    IF Len(s) > 0 /\ SubSeq(s, Len(s), Len(s)) \in Whitespace
    THEN RStrip(SubSeq(s, 1, Len(s) - 1)) ELSE s

\* str.strip()
Strip(s) == RStrip(LStrip(s))

\* str.split(): the maximal runs of non-whitespace characters
RECURSIVE SplitFrom(_, _)
SplitFrom(s, cur) ==
    IF Len(s) = 0 THEN (IF cur = "" THEN <<>> ELSE <<cur>>)
    ELSE IF SubSeq(s, 1, 1) \in Whitespace
         THEN (IF cur = "" THEN <<>> ELSE <<cur>>) \o SplitFrom(From(s, 2), "")
         ELSE SplitFrom(From(s, 2), cur \o SubSeq(s, 1, 1))

Split(s) == SplitFrom(s, "")

DigitValue(ch) == (CHOOSE i \in 1..10 : Digits[i] = ch) - 1

IsDigit(ch) == \E i \in 1..10 : Digits[i] = ch

RECURSIVE AllDigits(_)
AllDigits(s) ==
    Len(s) = 0 \/ (IsDigit(SubSeq(s, 1, 1)) /\ AllDigits(From(s, 2)))

RECURSIVE DigitsValue(_, _)
DigitsValue(s, acc) ==
    IF Len(s) = 0 THEN acc
    ELSE DigitsValue(From(s, 2), 10 * acc + DigitValue(SubSeq(s, 1, 1)))

\* whether int(tok) succeeds: an optional sign and at least one digit
IsInt(tok) ==
    LET body == IF Len(tok) > 0 /\ SubSeq(tok, 1, 1) \in {"-", "+"}
                THEN From(tok, 2) ELSE tok
    IN  Len(body) > 0 /\ AllDigits(body)

\* int(tok), for a tok with IsInt(tok)
ParseInt(tok) ==
    IF SubSeq(tok, 1, 1) = "-" THEN 0 - DigitsValue(From(tok, 2), 0)
    ELSE IF SubSeq(tok, 1, 1) = "+" THEN DigitsValue(From(tok, 2), 0)
    ELSE DigitsValue(tok, 0)

\* str(n) of an integer
RECURSIVE NatStr(_)
NatStr(n) == IF n < 10 THEN Digits[n + 1] ELSE NatStr(n \div 10) \o Digits[(n % 10) + 1]

IntStr(n) == IF n < 0 THEN "-" \o NatStr(0 - n) ELSE NatStr(n)

----------------------------------------------------------------------------
(* Storage (src/api/database.py), as far as the serial interface uses it. *)

\* the fields of the SensorReading dataclass, and those without a default
ReadingFields ==
    {"device_id", "timestamp", "temperature_centidegrees",
     "humidity_centipercent", "flags", "received_at", "address"}

ReadingRequired ==
    {"device_id", "timestamp", "temperature_centidegrees", "humidity_centipercent"}

\* SensorReading(**kw): the generated __init__ raises TypeError on an unknown
\* keyword and on a missing required field
SensorReading(kw) ==
    IF DOMAIN kw \subseteq ReadingFields /\ ReadingRequired \subseteq DOMAIN kw
    THEN [exc |-> "none", val |-> kw]
    ELSE [exc |-> "TypeError", val |-> kw]

RowKey(r) == <<r.device_id, r.timestamp>>

\* an insert that replaces the stored row of the same key
insert_reading_replace(rows, r, dbok) ==
    IF ~dbok THEN [db |-> rows, ok |-> FALSE]
    ELSE [db |-> {x \in rows : RowKey(x) # RowKey(r)} \cup {r},
          ok |-> ~(\E x \in rows : RowKey(x) = RowKey(r))]

\* insert_reading: True iff a row was added; a duckdb.Error is logged and
\* answered with False
insert_reading(rows, r, dbok) ==
    IF ~dbok THEN [db |-> rows, ok |-> FALSE]
    ELSE IF \E x \in rows : RowKey(x) = RowKey(r) THEN [db |-> rows, ok |-> FALSE]
    ELSE [db |-> rows \cup {r}, ok |-> TRUE]

\* insert_batch: (inserted, duplicates); a duckdb.Error is answered with
\* (0, len(readings))
RECURSIVE insert_batch_loop(_, _, _, _)
insert_batch_loop(rows, readings, inserted, duplicates) ==
    IF readings = <<>> THEN [db |-> rows, inserted |-> inserted, duplicates |-> duplicates]
    ELSE LET one == insert_reading(rows, Head(readings), TRUE)
         IN  insert_batch_loop(one.db, Tail(readings),
                               inserted + (IF one.ok THEN 1 ELSE 0),
                               duplicates + (IF one.ok THEN 0 ELSE 1))

insert_batch(rows, readings, dbok) ==
    IF readings = <<>> THEN [db |-> rows, inserted |-> 0, duplicates |-> 0]
    ELSE IF ~dbok THEN [db |-> rows, inserted |-> 0, duplicates |-> Len(readings)]
    ELSE insert_batch_loop(rows, readings, 0, 0)

\* insert_batch when the INSERT of the k-th reading raises duckdb.Error: the
\* statements before it were executed and committed one by one, the answer
\* is (0, len(readings))
insert_batch_failing(rows, readings, k) ==
    [db |-> insert_batch_loop(rows, SubSeq(readings, 1, k - 1), 0, 0).db,
     inserted |-> 0, duplicates |-> Len(readings)]

\* _update_node_stats(conn, device_id, address, timestamp): existing is what
\* its SELECT found; with a row it adds one to total_readings and raises
\* last_seen_at to the timestamp, without one it inserts the row of the
\* device, which the primary key refuses when the row is there by then
update_node_stats(tab, existing, r) ==
    IF existing
    THEN [nodes |-> [d \in DOMAIN tab |->
                        IF d = r.device_id
                        THEN [total_readings |-> tab[d].total_readings + 1,
                              last_seen_at |-> IF tab[d].last_seen_at > r.timestamp
                                               THEN tab[d].last_seen_at ELSE r.timestamp]
                        ELSE tab[d]],
          exc |-> "none"]
    ELSE IF r.device_id \in DOMAIN tab
    THEN [nodes |-> tab, exc |-> "ConstraintException"]
    ELSE [nodes |-> [d \in DOMAIN tab \cup {r.device_id} |->
                        IF d = r.device_id
                        THEN [total_readings |-> 1, last_seen_at |-> r.timestamp]
                        ELSE tab[d]],
          exc |-> "none"]

\* the nodes table after one thread has inserted the readings in order into
\* rows: `if count > 0: self._update_node_stats(...)` for every row added
RECURSIVE node_stats_loop(_, _, _)
node_stats_loop(tab, rows, readings) ==
    IF readings = <<>> THEN tab
    ELSE IF insert_reading(rows, Head(readings), TRUE).ok
    THEN node_stats_loop(
             update_node_stats(tab, Head(readings).device_id \in DOMAIN tab,
                               Head(readings)).nodes,
             insert_reading(rows, Head(readings), TRUE).db, Tail(readings))
    ELSE node_stats_loop(tab, rows, Tail(readings))

\* the threads that call the database directly
StoreThreads == {"t1", "t2"}

\* a thread outside insert_reading
NotInserting == [pc |-> "idle", arg |-> <<>>, existing |-> FALSE, ret |-> "None"]

----------------------------------------------------------------------------
(* The message router and the push handlers.                               *)
(*                                                                         *)
(* A handler maps the reader's state st = [queue, tx, batch, db, exc,      *)
(* dests, wfailed, wd] to the state after it; exc names the exception that *)
(* escapes the handler ("none" if none does), dests lists, in order, the   *)
(* destinations the line was handed to, wfailed counts the writes to the   *)
(* link that raised and wd is the system weekday the query handler read    *)
(* (-1 if it did not run).  env holds what the environment                 *)
(* decides during the call: whether a write to the link succeeds (wok),    *)
(* what storage does (db: "ok", "error" for a duckdb.Error, which the      *)
(* storage layer answers itself, "raise" for any other exception), the     *)
(* system weekday and time, and the link state.                            *)

NoBatch == [active |-> FALSE, node_addr |-> 0, expected_count |-> 0, records |-> <<>>]

Raise(st, e) == [st EXCEPT !.exc = e]

Dest(st, d) == [st EXCEPT !.dests = Append(@, d)]

\* self.serial.write(text + "\n"); self.serial.flush()
SerialWrite(st, text, env) ==
    IF env.wok THEN [st EXCEPT !.tx = Append(@, text)]
    ELSE [Raise(st, "SerialException") EXCEPT !.wfailed = @ + 1]

\* what a try block lets through: `except Exception` catches everything
CatchAll(after) == Raise(after, "none")

\* `except (ValueError, IndexError)` around a handler body
CatchParse(after) ==
    IF after.exc \in {"ValueError", "IndexError"} THEN Raise(after, "none") ELSE after

\* a conversion that forgets the wrap of Sunday
HubWeekdayNoWrap(weekday) == weekday + 1

\* hub_weekday = (weekday + 1) % 7
HubWeekday(weekday) == (weekday + 1) % 7

\* a reply written outside any try
handle_datetime_query_uncaught(st, env) ==
    SerialWrite([st EXCEPT !.wd = env.weekday],
                "DATETIME " \o env.now \o " " \o IntStr(HubWeekday(env.weekday)), env)

\* _handle_datetime_query: the reply is written inside try/except Exception
handle_datetime_query(st, env) ==
    LET response == "DATETIME " \o env.now \o " " \o IntStr(HubWeekday(env.weekday))
    IN  CatchAll(SerialWrite([st EXCEPT !.wd = env.weekday], response, env))

handle_sensor_data(line, st, env) ==
    IF ~env.has_db THEN st
    ELSE LET parts == Split(line)
             body ==
                 IF Len(parts) < 4 THEN st
                 ELSE IF ~IsInt(parts[2]) \/ ~IsInt(parts[4]) THEN Raise(st, "ValueError")
                 ELSE IF parts[3] \notin {"TEMP", "HUM"} THEN st
                 ELSE LET made == SensorReading(
                                  [node_address |-> ParseInt(parts[2]),
                                   timestamp |-> 0,
                                   temperature_centidegrees |->
                                       IF parts[3] = "TEMP" THEN ParseInt(parts[4]) ELSE 0,
                                   humidity_centipercent |->
                                       IF parts[3] = "HUM" THEN ParseInt(parts[4]) ELSE 0,
                                   received_at |-> 0])
                      IN  IF made.exc # "none" THEN Raise(st, made.exc)
                          ELSE IF env.db = "raise" THEN Raise(st, "StorageError")
                          ELSE [st EXCEPT !.db = insert_reading(@, made.val, env.db = "ok").db]
         IN  CatchParse(body)

\* a batch start that leaves a pending batch alone
new_batch_keep(old, node_addr, count) ==
    IF old.active THEN old
    ELSE [active |-> TRUE, node_addr |-> node_addr, expected_count |-> count,
          records |-> <<>>]

\* self._batch_state = {'node_addr': ..., 'expected_count': ..., 'records': []}
new_batch(old, node_addr, count) ==
    [active |-> TRUE, node_addr |-> node_addr, expected_count |-> count,
     records |-> <<>>]

handle_sensor_batch_start(line, st, env) ==
    LET parts == Split(line)
        body ==
            IF Len(parts) < 3 THEN st
            ELSE IF ~IsInt(parts[2]) \/ ~IsInt(parts[3]) THEN Raise(st, "ValueError")
            ELSE [st EXCEPT !.batch = new_batch(@, ParseInt(parts[2]), ParseInt(parts[3]))]
    IN  CatchParse(body)

\* a test that takes a batch to be pending at all times
pending_always(batch) == TRUE

\* `if not self._batch_state: return` tests this
pending(batch) == batch.active

handle_sensor_record(line, st, env) ==
    IF ~pending(st.batch) THEN st
    ELSE LET parts == Split(line)
             body ==
                 IF Len(parts) < 6 THEN st
                 ELSE IF \E i \in 2..6 : ~IsInt(parts[i]) THEN Raise(st, "ValueError")
                 ELSE LET made == SensorReading(
                                  [node_address |-> ParseInt(parts[2]),
                                   timestamp |-> ParseInt(parts[3]),
                                   temperature_centidegrees |-> ParseInt(parts[4]),
                                   humidity_centipercent |-> ParseInt(parts[5]),
                                   flags |-> ParseInt(parts[6]),
                                   received_at |-> 0])
                      IN  IF made.exc # "none" THEN Raise(st, made.exc)
                          ELSE [st EXCEPT !.batch.records = Append(@, made.val)]
         IN  CatchParse(body)

\* an acknowledgment that does not test the link and lets the failure of its
\* write through
send_batch_ack_uncaught(st, node_addr, count, status, env) ==
    SerialWrite(st, "BATCH_ACK " \o IntStr(node_addr) \o " "
                        \o IntStr(count) \o " " \o IntStr(status),
                [env EXCEPT !.wok = env.wok /\ env.open])

\* _send_batch_ack: nothing is written on a link that is not open; the write
\* is made inside try/except Exception
send_batch_ack(st, node_addr, count, status, env) ==
    IF ~env.open THEN st
    ELSE CatchAll(SerialWrite(st, "BATCH_ACK " \o IntStr(node_addr) \o " "
                                      \o IntStr(count) \o " " \o IntStr(status), env))

\* an else branch that only logs
empty_batch_no_ack(st, node_addr, env) == st

\* the else branch: no records, or no database: self._send_batch_ack(node_addr, 0, 1)
empty_batch_ack(st, node_addr, env) == send_batch_ack(st, node_addr, 0, 1, env)

handle_batch_complete(line, st, env) ==
    IF ~pending(st.batch) THEN st
    ELSE LET parts == Split(line)
             body ==
                 IF Len(parts) < 3 THEN st
                 ELSE IF ~IsInt(parts[2]) \/ ~IsInt(parts[3]) THEN Raise(st, "ValueError")
                 ELSE LET node_addr == ParseInt(parts[2])
                          stored == insert_batch(st.db, st.batch.records, env.db = "ok")
                          acked ==
                              IF env.has_db /\ st.batch.records # <<>>
                              THEN IF env.db = "raise" THEN Raise(st, "StorageError")
                                   ELSE send_batch_ack([st EXCEPT !.db = stored.db], node_addr,
                                                  stored.inserted,
                                                  IF stored.inserted > 0 THEN 0 ELSE 1, env)
                              ELSE empty_batch_ack(st, node_addr, env)
                      IN  IF acked.exc # "none" THEN acked
                          ELSE [acked EXCEPT !.batch = NoBatch]
         IN  IF body.exc \in {"ValueError", "IndexError"}
             THEN [Raise(body, "none") EXCEPT !.batch = NoBatch]
             ELSE body

\* a queue that hands out the newest line first
queue_put_front(queue, line) == <<line>> \o queue

\* self.response_queue.put(line): queue.Queue is first in, first out
queue_put(queue, line) == Append(queue, line)

\* a router whose query branch does not return
handle_line_fallthrough(line, st, env) ==
    IF line = "GET_DATETIME"
    THEN LET r == handle_datetime_query(Dest(st, "datetime"), env)
         IN  [Dest(r, "response") EXCEPT !.queue = queue_put(@, line)]
    ELSE IF StartsWith(line, "SENSOR_DATA ")
    THEN handle_sensor_data(line, Dest(st, "sensor_data"), env)
    ELSE IF StartsWith(line, "SENSOR_BATCH ")
    THEN handle_sensor_batch_start(line, Dest(st, "sensor_batch"), env)
    ELSE IF StartsWith(line, "SENSOR_RECORD ")
    THEN handle_sensor_record(line, Dest(st, "sensor_record"), env)
    ELSE IF StartsWith(line, "BATCH_COMPLETE ")
    THEN handle_batch_complete(line, Dest(st, "batch_complete"), env)
    ELSE [Dest(st, "response") EXCEPT !.queue = queue_put(@, line)]

\* _handle_line: the first test that matches decides, and returns
handle_line(line, st, env) ==
    IF line = "GET_DATETIME"
    THEN handle_datetime_query(Dest(st, "datetime"), env)
    ELSE IF StartsWith(line, "SENSOR_DATA ")
    THEN handle_sensor_data(line, Dest(st, "sensor_data"), env)
    ELSE IF StartsWith(line, "SENSOR_BATCH ")
    THEN handle_sensor_batch_start(line, Dest(st, "sensor_batch"), env)
    ELSE IF StartsWith(line, "SENSOR_RECORD ")
    THEN handle_sensor_record(line, Dest(st, "sensor_record"), env)
    ELSE IF StartsWith(line, "BATCH_COMPLETE ")
    THEN handle_batch_complete(line, Dest(st, "batch_complete"), env)
    ELSE [Dest(st, "response") EXCEPT !.queue = queue_put(@, line)]

----------------------------------------------------------------------------
(* The background reader: _read_loop. *)

\* an except clause as narrow as the handlers' own
read_loop_except_parse(exc) == exc \in {"ValueError", "IndexError"}

\* `except Exception` of _read_loop: whether it catches the exception
read_loop_except(exc) == TRUE

\* the inner `while '\n' in buffer` loop; an exception leaves it with the
\* rest of the buffer unprocessed.  handled lists each line given to
\* _handle_line with the destinations it reached.
RECURSIVE process_lines(_, _, _, _)

\* what follows the call of _handle_line for one line: r is the state the
\* handler left
after_line(line, rest, st, r, env, handled) ==
    IF r.exc # "none"
    THEN [st |-> r, buffer |-> rest,
          handled |-> Append(handled, [line |-> line, dests |-> r.dests,
                                       queued |-> Len(r.queue) - Len(st.queue),
                                       wfailed |-> r.wfailed - st.wfailed,
                                       wd |-> r.wd])]
    ELSE process_lines(rest, r, env,
                       Append(handled, [line |-> line, dests |-> r.dests,
                                        queued |-> Len(r.queue) - Len(st.queue),
                                        wfailed |-> r.wfailed - st.wfailed,
                                        wd |-> r.wd]))

\* one pass of the inner loop on a buffer whose first newline is at i
split_line(buf, i, st, env, handled) ==
    IF Strip(SubSeq(buf, 1, i - 1)) = ""
    THEN process_lines(From(buf, i + 1), st, env, handled)
    ELSE after_line(Strip(SubSeq(buf, 1, i - 1)), From(buf, i + 1), st,
                    handle_line(Strip(SubSeq(buf, 1, i - 1)),
                                [st EXCEPT !.dests = <<>>, !.wd = -1], env),
                    env, handled)

process_lines(buf, st, env, handled) ==
    IF Find(buf, NL, 1) = 0 THEN [st |-> st, buffer |-> buf, handled |-> handled]
    ELSE split_line(buf, Find(buf, NL, 1), st, env, handled)

Free == "free"
AllCallers == {"c1", "c2", "c3"}
NoResult == [kind |-> "none", lines |-> <<>>, how |-> "none"]

Range(seq) == {seq[i] : i \in 1..Len(seq)}

\* what the serial interface never touches: the write buffer and the task queue
AsideUnchanged == <<write_buffer, clock, flushes, last_op, task, conn, nodes_table, inserting>>

EngineUnchanged == <<command_lock, pc, command, timeout, responses, elapsed, waited,
                     result, calls, quiet_for, discarded, order, AsideUnchanged>>

\* what one iteration leaves behind: r is the outcome of the inner loop on
\* the bytes read; an exception is caught by the loop's `except Exception`
read_effect(r) ==
    /\ in_waiting' = ""
    /\ buffer' = r.buffer
    /\ response_queue' = r.st.queue
    /\ tx' = r.st.tx
    /\ batch_state' = r.st.batch
    /\ db' = r.st.db
    /\ reader_pc' = IF r.st.exc = "none" \/ read_loop_except(r.st.exc)
                    THEN "loop" ELSE "crashed"
    /\ routed' = [handled |-> r.handled, exc |-> r.st.exc]

\* one iteration of the `while self.running and self.serial and
\* self.serial.is_open` loop that finds bytes waiting
read_loop(wok, dbr, weekday) ==
    /\ reader_pc = "loop"
    /\ running /\ serial_open
    /\ in_waiting # ""
    /\ read_effect(process_lines(
           buffer \o in_waiting,
           [queue |-> response_queue, tx |-> tx, batch |-> batch_state,
            db |-> db, exc |-> "none", dests |-> <<>>, wfailed |-> 0, wd |-> -1],
           [wok |-> wok, db |-> dbr, weekday |-> weekday,
            now |-> "2026-01-01 00:00:00", has_db |-> has_db, open |-> serial_open],
           <<>>))
    /\ UNCHANGED <<serial_open, running, has_db, sent, late, disconnects>>
    /\ UNCHANGED EngineUnchanged

\* the loop condition fails: _read_loop returns
read_loop_exit ==
    /\ reader_pc = "loop"
    /\ ~(running /\ serial_open)
    /\ reader_pc' = "exited"
    /\ UNCHANGED <<serial_open, running, in_waiting, buffer, response_queue,
                   batch_state, has_db, db, tx, sent, routed, late, disconnects>>
    /\ UNCHANGED EngineUnchanged

\* connect(): open the port and start the reader thread
connect ==
    /\ ~serial_open /\ reader_pc = "none"
    /\ serial_open' = TRUE
    /\ running' = TRUE
    /\ reader_pc' = "loop"
    /\ UNCHANGED <<in_waiting, buffer, response_queue, batch_state, has_db, db, tx, sent,
                   routed, late, disconnects>>
    /\ UNCHANGED EngineUnchanged

\* disconnect(), first statement: self.running = False
disconnect_stop ==
    /\ running
    /\ running' = FALSE
    /\ UNCHANGED <<serial_open, reader_pc, in_waiting, buffer, response_queue,
                   batch_state, has_db, db, tx, sent, routed, late, disconnects>>
    /\ UNCHANGED EngineUnchanged

\* a close that does not look at the handle first: None has no close()
close_handle_unguarded(has_serial, is_open) ==
    IF has_serial THEN [serial_open |-> FALSE, exc |-> "none"]
    ELSE [serial_open |-> is_open, exc |-> "AttributeError"]

\* `if self.serial and self.serial.is_open: self.serial.close()`
close_handle(has_serial, is_open) ==
    IF has_serial /\ is_open THEN [serial_open |-> FALSE, exc |-> "none"]
    ELSE [serial_open |-> is_open, exc |-> "none"]

\* disconnect(), after read_thread.join(timeout=2.0) returned (the reader
\* has exited or the wait has timed out): close the handle if it is open
disconnect_close ==
    /\ ~running /\ serial_open
    /\ serial_open' = close_handle(reader_pc # "none", serial_open).serial_open
    /\ disconnects' = [n |-> disconnects.n + 1,
                       exc |-> close_handle(reader_pc # "none", serial_open).exc,
                       was_open |-> serial_open]
    /\ UNCHANGED <<running, reader_pc, in_waiting, buffer, response_queue,
                   batch_state, has_db, db, tx, sent, routed, late>>
    /\ UNCHANGED EngineUnchanged

\* disconnect() on an interface that is not running and has no open handle
\* (before connect, or after an earlier disconnect): self.running = False
\* changes nothing, the join of a finished or missing thread returns at
\* once, and there is nothing to close
disconnect_idle ==
    /\ ~running /\ ~serial_open
    /\ disconnects.n < MaxDisconnects
    /\ running' = FALSE
    /\ serial_open' = close_handle(reader_pc # "none", serial_open).serial_open
    /\ disconnects' = [n |-> disconnects.n + 1,
                       exc |-> close_handle(reader_pc # "none", serial_open).exc,
                       was_open |-> serial_open]
    /\ UNCHANGED <<reader_pc, in_waiting, buffer, response_queue,
                   batch_state, has_db, db, tx, sent, routed, late>>
    /\ UNCHANGED EngineUnchanged

\* an iteration that disconnect() overtakes: the reader has read the bytes,
\* disconnect's join(timeout=2.0) times out while the lines are handled, and
\* the handle is closed before the handlers write
read_loop_closed(dbr, weekday) ==
    /\ reader_pc = "loop"
    /\ ~running /\ serial_open
    /\ in_waiting # ""
    /\ read_effect(process_lines(
           buffer \o in_waiting,
           [queue |-> response_queue, tx |-> tx, batch |-> batch_state,
            db |-> db, exc |-> "none", dests |-> <<>>, wfailed |-> 0, wd |-> -1],
           [wok |-> FALSE, db |-> dbr, weekday |-> weekday,
            now |-> "2026-01-01 00:00:00", has_db |-> has_db, open |-> FALSE],
           <<>>))
    /\ serial_open' = close_handle(TRUE, serial_open).serial_open
    /\ disconnects' = [n |-> disconnects.n + 1,
                       exc |-> close_handle(TRUE, serial_open).exc,
                       was_open |-> serial_open]
    /\ UNCHANGED <<running, has_db, sent, late>>
    /\ UNCHANGED EngineUnchanged

\* a call has failed with TimeoutError and no call has begun since
AfterTimeout ==
    /\ \E c \in AllCallers : pc[c] = "done" /\ result[c].kind = "TimeoutError"
    /\ \A c \in AllCallers : pc[c] \in {"idle", "done"}

\* the hub puts one more line on the link; it sends no line twice
hub_send(line, max) ==
    /\ serial_open
    /\ Len(sent) < max
    /\ line \notin Range(sent)
    /\ in_waiting' = in_waiting \o line \o NL
    /\ sent' = Append(sent, line)
    /\ late' = IF AfterTimeout THEN late \cup {line} ELSE late
    /\ UNCHANGED <<serial_open, running, reader_pc, buffer, response_queue,
                   batch_state, has_db, db, tx, routed, disconnects>>
    /\ UNCHANGED EngineUnchanged

----------------------------------------------------------------------------
(* The command/response engine: send_command. *)

CountPrefix(lines, prefix) ==
    Cardinality({i \in 1..Len(lines) : StartsWith(lines[i], prefix)})

\* int(header.split()[k]) of a count header: IndexError when the field is
\* missing, ValueError when it is no integer
HeaderCount(header, k) ==
    LET parts == Split(header)
    IN  IF Len(parts) < k THEN [exc |-> "IndexError", val |-> 0]
        ELSE IF ~IsInt(parts[k]) THEN [exc |-> "ValueError", val |-> 0]
        ELSE [exc |-> "none", val |-> ParseInt(parts[k])]

\* the field of the header that holds the count: split()[1] of NODE_LIST,
\* split()[2] of QUEUE (the fields are numbered from 1 here)
NodeCountField == 2

\* the field a copy of the NODE_LIST rule would read
QueueCountFieldCopied == NodeCountField

QueueCountField == 3

\* a header that never completes alone
header_alone_never(count) == FALSE

\* `return count == 0`: the header alone completes a list of no items
header_alone(count) == count = 0

\* a comparison that asks for one item too many
enough_strict(count, expected) == count > expected

\* `return node_count >= expected_count` (and update_count)
enough(count, expected) == count >= expected

\* a test of the first line collected
first_is_queued(rs) == StartsWith(rs[1], "QUEUED")

\* `last_line.startswith('QUEUED')` with last_line = responses[-1]
last_is_queued(rs) == StartsWith(rs[Len(rs)], "QUEUED")

\* the header-count rule shared by LIST_NODES and GET_QUEUE; fall when the
\* first line is not the header and the code falls through to the next test
header_count_rule(rs, header, k, item) ==
    IF ~StartsWith(rs[1], header) THEN [exc |-> "none", val |-> FALSE, fall |-> TRUE]
    ELSE LET n == HeaderCount(rs[1], k)
         IN  IF n.exc # "none" THEN [exc |-> n.exc, val |-> FALSE, fall |-> FALSE]
             ELSE IF Len(rs) = 1
             THEN [exc |-> "none", val |-> header_alone(n.val), fall |-> FALSE]
             ELSE [exc |-> "none", val |-> enough(CountPrefix(Tail(rs), item), n.val),
                   fall |-> FALSE]

Falls == [exc |-> "none", val |-> FALSE, fall |-> TRUE]

\* _is_response_complete(command, responses): the value returned (val), or
\* the exception raised (exc)
is_response_complete(cmd, rs) ==
    IF rs = <<>> THEN Falls
    ELSE IF StartsWith(cmd, "SET_SCHEDULE") \/ StartsWith(cmd, "REMOVE_SCHEDULE")
    THEN [Falls EXCEPT !.val = last_is_queued(rs)]
    ELSE IF StartsWith(cmd, "SET_WAKE_INTERVAL") \/ StartsWith(cmd, "SET_DATETIME")
    THEN [Falls EXCEPT !.val = last_is_queued(rs)]
    ELSE LET nodes == IF cmd = "LIST_NODES"
                      THEN header_count_rule(rs, "NODE_LIST", NodeCountField, "NODE ")
                      ELSE Falls
             queue == IF StartsWith(cmd, "GET_QUEUE")
                      THEN header_count_rule(rs, "QUEUE", QueueCountField, "UPDATE ")
                      ELSE Falls
         IN  IF ~nodes.fall THEN nodes
             ELSE IF ~queue.fall THEN queue
             ELSE Falls

\* the drain at the start of a call: `while not self.response_queue.empty()`
drain(queue) == <<>>

\* an Empty branch without the test of the time since the start
quiet_break_no_floor(rs, e) == rs # <<>>

\* a loop that does not look at the clock
loop_condition_forever(e, t) == TRUE

\* `while time.time() - start_time < timeout`
loop_condition(e, t) == e < t

\* the Empty branch: `if responses and (time.time() - start_time) > 0.5`
quiet_break(rs, e) == rs # <<>> /\ e > QuietFloorTicks

\* a return without the test for an empty list
finish_unchecked(rs, how) == [kind |-> "ok", lines |-> rs, how |-> how]

\* after the loop: `if not responses: raise TimeoutError`, else return
finish(rs, how) ==
    IF rs = <<>> THEN [kind |-> "TimeoutError", lines |-> <<>>, how |-> how]
    ELSE [kind |-> "ok", lines |-> rs, how |-> how]

\* a lock that never blocks
lock_free_always(holder) == TRUE

\* whether a caller may take the lock: threading.Lock is held by at most one
lock_free(holder) == holder = Free

TransportUnchanged == <<serial_open, running, reader_pc, in_waiting, buffer,
                        batch_state, has_db, db, sent, routed, late, disconnects,
                        AsideUnchanged>>

\* send_command(command, timeout) up to the `with self.command_lock`
send_command_call(c, cmd, t, max) ==
    /\ pc[c] \in {"idle", "done"}
    /\ calls[c] < max
    /\ calls' = [calls EXCEPT ![c] = @ + 1]
    /\ command' = [command EXCEPT ![c] = cmd]
    /\ timeout' = [timeout EXCEPT ![c] = t]
    /\ responses' = [responses EXCEPT ![c] = <<>>]
    /\ elapsed' = [elapsed EXCEPT ![c] = 0]
    /\ waited' = [waited EXCEPT ![c] = 0]
    /\ quiet_for' = [quiet_for EXCEPT ![c] = 0]
    /\ IF ~serial_open
       THEN /\ pc' = [pc EXCEPT ![c] = "done"]
            /\ result' = [result EXCEPT ![c] = [NoResult EXCEPT !.kind = "RuntimeError"]]
       ELSE /\ pc' = [pc EXCEPT ![c] = "lock"]
            /\ result' = [result EXCEPT ![c] = NoResult]
    /\ order' = IF serial_open /\ ~lock_free(command_lock)
                THEN [order EXCEPT !.waiting = Append(@, c)] ELSE order
    /\ UNCHANGED <<command_lock, response_queue, tx, discarded>>
    /\ UNCHANGED TransportUnchanged

\* a write whose failure is logged and not raised
command_write_swallow(link, cmd, wok) ==
    IF wok THEN [tx |-> Append(link, Strip(cmd)), exc |-> "none"]
    ELSE [tx |-> link, exc |-> "none"]

\* the write of command.strip() + '\n': any exception of the write is
\* raised again as RuntimeError
command_write(link, cmd, wok) ==
    IF wok THEN [tx |-> Append(link, Strip(cmd)), exc |-> "none"]
    ELSE [tx |-> link, exc |-> "RuntimeError"]

\* the lock is taken: drain the queue, write the command (a write to a
\* closed handle raises), enter the loop
send_command_begin(c, wok) ==
    /\ pc[c] = "lock"
    /\ lock_free(command_lock)
    /\ response_queue' = drain(response_queue)
    /\ discarded' = discarded \cup Range(response_queue)
    /\ tx' = command_write(tx, command[c], wok /\ serial_open).tx
    /\ order' = IF command_write(tx, command[c], wok /\ serial_open).exc = "none"
                THEN [order EXCEPT !.served = Append(@, c)] ELSE order
    /\ IF command_write(tx, command[c], wok /\ serial_open).exc # "none"
       THEN /\ result' = [result EXCEPT ![c] = [NoResult EXCEPT !.kind =
                                                   command_write(tx, command[c], wok /\ serial_open).exc]]
            /\ pc' = [pc EXCEPT ![c] = "done"]
            /\ UNCHANGED command_lock
       ELSE IF loop_condition(0, timeout[c])
       THEN /\ pc' = [pc EXCEPT ![c] = "poll"]
            /\ command_lock' = c
            /\ UNCHANGED result
       ELSE /\ pc' = [pc EXCEPT ![c] = "done"]
            /\ result' = [result EXCEPT ![c] = finish(<<>>, "timeout")]
            /\ UNCHANGED command_lock
    /\ UNCHANGED <<command, timeout, responses, elapsed, waited, calls, quiet_for>>
    /\ UNCHANGED TransportUnchanged

\* the first half of the write under the lock, for the interleavings with
\* the reader thread: the lock is taken, the queue drained and
\* self.serial.write(...) called; self.serial.flush() is still to come
send_command_write(c, wok) ==
    /\ pc[c] = "lock"
    /\ lock_free(command_lock)
    /\ response_queue' = drain(response_queue)
    /\ discarded' = discarded \cup Range(response_queue)
    /\ tx' = command_write(tx, command[c], wok /\ serial_open).tx
    /\ IF command_write(tx, command[c], wok /\ serial_open).exc # "none"
       THEN /\ result' = [result EXCEPT ![c] = [NoResult EXCEPT !.kind =
                                                   command_write(tx, command[c], FALSE).exc]]
            /\ pc' = [pc EXCEPT ![c] = "done"]
            /\ UNCHANGED <<command_lock, order>>
       ELSE /\ pc' = [pc EXCEPT ![c] = "flush"]
            /\ command_lock' = c
            /\ order' = [order EXCEPT !.served = Append(@, c)]
            /\ UNCHANGED result
    /\ UNCHANGED <<command, timeout, responses, elapsed, waited, calls, quiet_for>>
    /\ UNCHANGED TransportUnchanged

\* self.serial.flush() returns or raises; the loop is entered after it
send_command_flush(c, fok) ==
    /\ pc[c] = "flush"
    /\ IF ~(fok /\ serial_open)
       THEN /\ result' = [result EXCEPT ![c] = [NoResult EXCEPT !.kind =
                                                   command_write(tx, command[c], FALSE).exc]]
            /\ pc' = [pc EXCEPT ![c] = "done"]
            /\ command_lock' = Free
       ELSE IF loop_condition(0, timeout[c])
       THEN /\ pc' = [pc EXCEPT ![c] = "poll"]
            /\ UNCHANGED <<command_lock, result>>
       ELSE /\ pc' = [pc EXCEPT ![c] = "done"]
            /\ result' = [result EXCEPT ![c] = finish(<<>>, "timeout")]
            /\ command_lock' = Free
    /\ UNCHANGED <<response_queue, tx, discarded, order, command, timeout, responses,
                   elapsed, waited, calls, quiet_for>>
    /\ UNCHANGED TransportUnchanged

\* what follows one pass of the loop body that did not break: the loop
\* condition is tested again
Continue(c, rs) ==
    IF loop_condition(elapsed[c], timeout[c])
    THEN /\ pc' = [pc EXCEPT ![c] = "poll"]
         /\ UNCHANGED <<command_lock, result>>
    ELSE /\ pc' = [pc EXCEPT ![c] = "done"]
         /\ command_lock' = Free
         /\ result' = [result EXCEPT ![c] = finish(rs, "timeout")]

\* response_queue.get(timeout=0.1) returns a line
send_command_line(c) ==
    /\ pc[c] = "poll"
    /\ response_queue # <<>>
    /\ LET rs == Append(responses[c], Head(response_queue))
           done == is_response_complete(command[c], rs)
       IN  /\ response_queue' = Tail(response_queue)
           /\ responses' = [responses EXCEPT ![c] = rs]
           /\ waited' = [waited EXCEPT ![c] = 0]
           /\ quiet_for' = [quiet_for EXCEPT ![c] = 0]
           /\ IF done.exc # "none"
              THEN /\ pc' = [pc EXCEPT ![c] = "done"]
                   /\ command_lock' = Free
                   /\ result' = [result EXCEPT ![c] = [NoResult EXCEPT !.kind = done.exc]]
              ELSE IF done.val
              THEN /\ pc' = [pc EXCEPT ![c] = "done"]
                   /\ command_lock' = Free
                   /\ result' = [result EXCEPT ![c] = finish(rs, "predicate")]
              ELSE Continue(c, rs)
    /\ UNCHANGED <<tx, command, timeout, elapsed, calls, discarded, order>>
    /\ UNCHANGED TransportUnchanged

\* response_queue.get(timeout=0.1) raises Empty
send_command_empty(c) ==
    /\ pc[c] = "poll"
    /\ response_queue = <<>>
    /\ waited[c] >= PollTicks
    /\ waited' = [waited EXCEPT ![c] = 0]
    /\ IF quiet_break(responses[c], elapsed[c])
       THEN /\ pc' = [pc EXCEPT ![c] = "done"]
            /\ command_lock' = Free
            /\ result' = [result EXCEPT ![c] = finish(responses[c], "quiet")]
       ELSE Continue(c, responses[c])
    /\ UNCHANGED <<response_queue, tx, command, timeout, responses, elapsed, calls,
                   quiet_for, discarded, order>>
    /\ UNCHANGED TransportUnchanged

\* 0.1 s passes while the caller holding the lock waits in get()
tick ==
    /\ \E c \in AllCallers : pc[c] = "poll"
    /\ \A c \in AllCallers : pc[c] = "poll" => waited[c] < PollTicks
    /\ elapsed' = [c \in AllCallers |-> IF pc[c] = "poll" THEN elapsed[c] + 1 ELSE elapsed[c]]
    /\ waited' = [c \in AllCallers |-> IF pc[c] = "poll" THEN waited[c] + 1 ELSE waited[c]]
    /\ quiet_for' = [c \in AllCallers |->
                        IF pc[c] = "poll" THEN quiet_for[c] + 1 ELSE quiet_for[c]]
    /\ UNCHANGED <<command_lock, response_queue, tx, pc, command, timeout, responses,
                   result, calls, discarded, order>>
    /\ UNCHANGED TransportUnchanged

----------------------------------------------------------------------------
(* The write buffer (WriteBuffer) and the storage calls behind it.         *)
(*                                                                         *)
(* Every operation of the buffer runs under `with self._lock`, so the      *)
(* operations of several threads happen one after the other: each is one   *)
(* action.  A storage call that finds no open connection never returns     *)
(* (_get_connection holds _conn_lock while _open_connection takes it       *)
(* again); the thread then stays inside the buffer operation, holding the  *)
(* buffer's lock (locked).                                                 *)

\* the readings threads add: two with the same (device_id, timestamp) and
\* different values, one with another timestamp
Readings ==
    {r \in [device_id : {1}, timestamp : {1, 2},
            temperature_centidegrees : {2500, 2600}, humidity_centipercent : {6500}] :
        r.timestamp = 2 => r.temperature_centidegrees = 2500}

\* what storage does in a call: "ok", "error" for a duckdb.Error, "raise"
\* for any other exception
StorageOutcomes == {"ok", "error", "raise"}

\* WriteBuffer(database, max_size, flush_interval) at time now
WriteBuffer(max_size, flush_interval, now) ==
    [buffer |-> <<>>, max_size |-> max_size, flush_interval |-> flush_interval,
     last_flush |-> now, locked |-> FALSE]

\* _get_connection(): the connection after a call that met outcome dbr; a
\* duckdb.Error inside the `with` block resets self._conn to None
connection_after(dbr) == IF dbr = "error" THEN "none" ELSE "open"

\* the history after one more list was handed to insert_batch
handed(log, batch, outcome) == [n |-> log.n + 1, batch |-> batch, outcome |-> outcome]

\* an operation that leaves buffer and storage as they are
no_flush(wb, rows, cn, log) ==
    [wb |-> wb, db |-> rows, conn |-> cn, flushes |-> log, flushed |-> 0,
     returned |-> TRUE, exc |-> "none"]

\* a flush that lets go of the lock while insert_batch is still at work
flush_buffer_unlocked(wb, rows, cn, log, dbr, now) ==
    IF wb.buffer = <<>> THEN no_flush(wb, rows, cn, log)
    ELSE IF cn # "open"
    THEN [wb |-> wb, db |-> rows, conn |-> "deadlock",
          flushes |-> handed(log, wb.buffer, "hang"),
          flushed |-> 1, returned |-> FALSE, exc |-> "none"]
    ELSE [wb |-> [wb EXCEPT !.buffer = <<>>, !.last_flush = now],
          db |-> IF dbr = "raise" THEN rows
                 ELSE insert_batch(rows, wb.buffer, dbr = "ok").db,
          conn |-> connection_after(dbr),
          flushes |-> handed(log, wb.buffer, dbr),
          flushed |-> 1, returned |-> TRUE, exc |-> "none"]

\* a flush that hands the failure on to its caller and keeps the readings
flush_buffer_requeue(wb, rows, cn, log, dbr, now) ==
    IF wb.buffer = <<>> THEN no_flush(wb, rows, cn, log)
    ELSE IF cn # "open"
    THEN [wb |-> [wb EXCEPT !.locked = TRUE], db |-> rows, conn |-> "deadlock",
          flushes |-> handed(log, wb.buffer, "hang"),
          flushed |-> 1, returned |-> FALSE, exc |-> "none"]
    ELSE IF dbr = "raise"
    THEN [wb |-> wb, db |-> rows, conn |-> cn,
          flushes |-> handed(log, wb.buffer, dbr),
          flushed |-> 1, returned |-> TRUE, exc |-> "Exception"]
    ELSE [wb |-> [wb EXCEPT !.buffer = <<>>, !.last_flush = now],
          db |-> insert_batch(rows, wb.buffer, dbr = "ok").db,
          conn |-> connection_after(dbr),
          flushes |-> handed(log, wb.buffer, dbr),
          flushed |-> 1, returned |-> TRUE, exc |-> "none"]

\* _flush(): nothing on an empty buffer; otherwise hand the list to
\* insert_batch, log any exception, clear the buffer and restart the timer
flush_buffer(wb, rows, cn, log, dbr, now) ==
    IF wb.buffer = <<>> THEN no_flush(wb, rows, cn, log)
    ELSE IF cn # "open"
    THEN [wb |-> [wb EXCEPT !.locked = TRUE], db |-> rows, conn |-> "deadlock",
          flushes |-> handed(log, wb.buffer, "hang"),
          flushed |-> 1, returned |-> FALSE, exc |-> "none"]
    ELSE [wb |-> [wb EXCEPT !.buffer = <<>>, !.last_flush = now],
          db |-> IF dbr = "raise" THEN rows
                 ELSE insert_batch(rows, wb.buffer, dbr = "ok").db,
          conn |-> connection_after(dbr),
          flushes |-> handed(log, wb.buffer, dbr),
          flushed |-> 1, returned |-> TRUE, exc |-> "none"]

\* a buffer that flushes only once it holds more than max_size readings
full_strict(n, max_size) == n > max_size

\* len(self.buffer) >= self.max_size
full(n, max_size) == n >= max_size

\* a timer that is due as soon as any time has passed
due_any(now, last_flush, flush_interval) == now - last_flush >= 1

\* time.time() - self.last_flush >= self.flush_interval
due(now, last_flush, flush_interval) == now - last_flush >= flush_interval

SerialUnchanged == <<serial_open, running, reader_pc, in_waiting, buffer,
                     response_queue, command_lock, batch_state, has_db, tx, pc,
                     command, timeout, responses, elapsed, waited, result, calls,
                     sent, routed, quiet_for, late, discarded, disconnects, order>>

\* no storage operation yet
NoOp == [op |-> "none", arg |-> <<>>, before |-> <<>>, rows |-> {}, at |-> 0,
         elapsed |-> 0, flushed |-> 0, returned |-> TRUE, exc |-> "none", ret |-> "None"]

\* what a buffer operation op with argument arg leaves behind: f is the
\* outcome of the flush it made, or of no flush
buffer_effect(op, arg, f) ==
    /\ write_buffer' = f.wb
    /\ db' = f.db
    /\ nodes_table' = IF f.db = db THEN nodes_table
                    ELSE node_stats_loop(nodes_table, db, f.flushes.batch)
    /\ conn' = f.conn
    /\ flushes' = f.flushes
    /\ last_op' = [op |-> op, arg |-> arg, before |-> write_buffer.buffer,
                   rows |-> {}, at |-> clock,
                   elapsed |-> clock - write_buffer.last_flush, flushed |-> f.flushed,
                   returned |-> f.returned, exc |-> f.exc, ret |-> "None"]
    /\ UNCHANGED <<clock, task, inserting>>
    /\ UNCHANGED SerialUnchanged

\* an add that flushes before it appends
add_flush_first(r, dbr) ==
    /\ ~write_buffer.locked
    /\ flushes.n < MaxFlushes
    /\ IF full(Len(write_buffer.buffer) + 1, write_buffer.max_size)
       THEN buffer_effect("add", <<r>>,
                [flush_buffer(write_buffer, db, conn, flushes, dbr, clock)
                    EXCEPT !.wb.buffer = Append(@, r)])
       ELSE buffer_effect("add", <<r>>,
                no_flush([write_buffer EXCEPT !.buffer = Append(@, r)], db, conn, flushes))

\* add(reading): append, then flush if the buffer is full
add(r, dbr) ==
    /\ ~write_buffer.locked
    /\ flushes.n < MaxFlushes
    /\ IF full(Len(write_buffer.buffer) + 1, write_buffer.max_size)
       THEN buffer_effect("add", <<r>>,
                flush_buffer([write_buffer EXCEPT !.buffer = Append(@, r)],
                             db, conn, flushes, dbr, clock))
       ELSE buffer_effect("add", <<r>>,
                no_flush([write_buffer EXCEPT !.buffer = Append(@, r)], db, conn, flushes))

\* maybe_flush(): flush a non-empty buffer whose interval has elapsed
maybe_flush(dbr) ==
    /\ ~write_buffer.locked
    /\ IF write_buffer.buffer # <<>>
          /\ due(clock, write_buffer.last_flush, write_buffer.flush_interval)
       THEN buffer_effect("maybe_flush", <<>>,
                flush_buffer(write_buffer, db, conn, flushes, dbr, clock))
       ELSE buffer_effect("maybe_flush", <<>>, no_flush(write_buffer, db, conn, flushes))

\* flush(): flush under the lock
flush(dbr) ==
    /\ ~write_buffer.locked
    /\ buffer_effect("flush", <<>>,
           flush_buffer(write_buffer, db, conn, flushes, dbr, clock))

\* a shutdown that leaves the buffer as it is
shutdown_skip(dbr) ==
    /\ ~write_buffer.locked
    /\ buffer_effect("shutdown", <<>>, no_flush(write_buffer, db, conn, flushes))

\* shutdown(): self.flush()
shutdown(dbr) ==
    /\ ~write_buffer.locked
    /\ buffer_effect("shutdown", <<>>,
           flush_buffer(write_buffer, db, conn, flushes, dbr, clock))

\* time passes
clock_tick ==
    /\ clock < MaxClock
    /\ clock' = clock + 1
    /\ UNCHANGED <<write_buffer, db, conn, flushes, last_op, task, nodes_table, inserting>>
    /\ UNCHANGED SerialUnchanged

\* a thread calls insert_reading(r) on the database; dbr is "ok" or "error".
\* A call that finds no open connection never returns.
insert_reading_call(r, dbr) ==
    /\ db' = IF conn = "open" THEN insert_reading(db, r, dbr = "ok").db ELSE db
    /\ nodes_table' = IF conn = "open" /\ dbr = "ok"
                    THEN node_stats_loop(nodes_table, db, <<r>>) ELSE nodes_table
    /\ conn' = IF conn # "open" THEN "deadlock" ELSE connection_after(dbr)
    /\ last_op' = [op |-> "insert_reading", arg |-> <<r>>,
                   before |-> write_buffer.buffer, rows |-> db, at |-> clock,
                   elapsed |-> clock - write_buffer.last_flush,
                   flushed |-> 0, returned |-> conn = "open", exc |-> "none",
                   ret |-> IF conn # "open" THEN "None"
                           ELSE IF insert_reading(db, r, dbr = "ok").ok THEN "True"
                           ELSE "False"]
    /\ UNCHANGED <<write_buffer, clock, flushes, task, inserting>>
    /\ UNCHANGED SerialUnchanged

\* a thread calls insert_batch(readings) on the database; k = 0: no statement
\* fails, k > 0: the INSERT of the k-th reading raises duckdb.Error. A call
\* that finds no open connection never returns.
insert_batch_call(readings, k) ==
    /\ k <= Len(readings)
    /\ db' = IF conn # "open" THEN db
             ELSE IF k = 0 THEN insert_batch(db, readings, TRUE).db
             ELSE insert_batch_failing(db, readings, k).db
    /\ nodes_table' = IF conn # "open" THEN nodes_table
                      ELSE IF k = 0 THEN node_stats_loop(nodes_table, db, readings)
                      ELSE node_stats_loop(nodes_table, db, SubSeq(readings, 1, k - 1))
    /\ conn' = IF readings = <<>> THEN conn
               ELSE IF conn # "open" THEN "deadlock"
               ELSE connection_after(IF k = 0 THEN "ok" ELSE "error")
    /\ last_op' = [op |-> "insert_batch", arg |-> readings,
                   before |-> write_buffer.buffer, rows |-> db, at |-> clock,
                   elapsed |-> clock - write_buffer.last_flush,
                   flushed |-> 0, returned |-> conn = "open" \/ readings = <<>>,
                   exc |-> "none",
                   ret |-> IF k = 0
                           THEN <<insert_batch(db, readings, TRUE).inserted,
                                  insert_batch(db, readings, TRUE).duplicates>>
                           ELSE <<insert_batch_failing(db, readings, k).inserted,
                                  insert_batch_failing(db, readings, k).duplicates>>]
    /\ UNCHANGED <<write_buffer, clock, flushes, task, inserting>>
    /\ UNCHANGED SerialUnchanged

\* insert_reading(r) on thread t, statement by statement. First the INSERT
\* ... ON CONFLICT DO NOTHING and the count of the new id: a duplicate is
\* answered with False; a call that finds no open connection never returns.
insert_reading_insert(t, r) ==
    /\ inserting[t].pc \in {"idle", "done"}
    /\ db' = IF conn = "open" THEN insert_reading(db, r, TRUE).db ELSE db
    /\ conn' = IF conn # "open" THEN "deadlock" ELSE conn
    /\ inserting' = [inserting EXCEPT ![t] =
           IF conn # "open" THEN [NotInserting EXCEPT !.pc = "hung", !.arg = <<r>>]
           ELSE IF insert_reading(db, r, TRUE).ok
           THEN [NotInserting EXCEPT !.pc = "select", !.arg = <<r>>]
           ELSE [NotInserting EXCEPT !.pc = "done", !.arg = <<r>>, !.ret = "False"]]
    /\ UNCHANGED <<write_buffer, clock, flushes, last_op, task, nodes_table>>
    /\ UNCHANGED SerialUnchanged

\* _update_node_stats: the SELECT of the node's row
insert_reading_select(t) ==
    /\ inserting[t].pc = "select"
    /\ inserting' = [inserting EXCEPT ![t].pc = "update",
                                      ![t].existing =
                                          inserting[t].arg[1].device_id \in DOMAIN nodes_table]
    /\ UNCHANGED <<write_buffer, clock, flushes, last_op, task, db, conn, nodes_table>>
    /\ UNCHANGED SerialUnchanged

\* _update_node_stats: the UPDATE or the INSERT of the node's row, then
\* `return True`; a duckdb.Error resets the connection and is answered
\* with False
insert_reading_update(t) ==
    /\ inserting[t].pc = "update"
    /\ nodes_table' = update_node_stats(nodes_table, inserting[t].existing,
                                        inserting[t].arg[1]).nodes
    /\ conn' = IF update_node_stats(nodes_table, inserting[t].existing,
                                    inserting[t].arg[1]).exc = "none"
               THEN conn ELSE "none"
    /\ inserting' = [inserting EXCEPT ![t].pc = "done",
                                      ![t].ret =
           IF update_node_stats(nodes_table, inserting[t].existing,
                                inserting[t].arg[1]).exc = "none"
           THEN "True" ELSE "False"]
    /\ UNCHANGED <<write_buffer, clock, flushes, last_op, task, db>>
    /\ UNCHANGED SerialUnchanged

----------------------------------------------------------------------------
(* The command queue (src/api/command_queue.py): the send_hub_command task *)
(* and the retry contract its decorator asks of the queue.  The task's     *)
(* clock counts ticks of 15 s.                                             *)

\* @huey.task(retries=3, retry_delay=30)
Retries == 3
RetryDelay == 2

\* what one delivery attempt meets: the hub answers QUEUED, the hub answers
\* something else, the hub does not answer (504 or a timed-out request),
\* the API service cannot be reached
Attempts == {"queued", "other", "timeout", "unreachable"}

\* _send_via_api(command, command_id)
send_via_api(outcome) ==
    CASE outcome = "timeout" -> [exc |-> "TimeoutError", responses |-> <<>>]
      [] outcome = "unreachable" -> [exc |-> "RuntimeError", responses |-> <<>>]
      [] outcome = "queued" -> [exc |-> "none", responses |-> <<"QUEUED 1">>]
      [] OTHER -> [exc |-> "none", responses |-> <<"ERROR unknown">>]

\* a task body that answers a timeout with a status instead of raising
send_hub_command_swallow(outcome) ==
    IF send_via_api(outcome).exc # "none"
    THEN [exc |-> "none", status |-> "failed"]
    ELSE IF send_via_api(outcome).responses # <<>>
            /\ StartsWith(send_via_api(outcome).responses[1], "QUEUED")
    THEN [exc |-> "none", status |-> "success"]
    ELSE [exc |-> "none", status |-> "warning"]

\* send_hub_command(command, command_id): TimeoutError and every other
\* exception are logged and raised again
send_hub_command(outcome) ==
    IF send_via_api(outcome).exc # "none"
    THEN [exc |-> send_via_api(outcome).exc, status |-> "none"]
    ELSE IF send_via_api(outcome).responses # <<>>
            /\ StartsWith(send_via_api(outcome).responses[1], "QUEUED")
    THEN [exc |-> "none", status |-> "success"]
    ELSE [exc |-> "none", status |-> "warning"]

NoTask == [state |-> "none", retries |-> 0, eta |-> 0, now |-> 0, attempts |-> <<>>,
           result |-> "none"]

\* the queue's answer to an attempt: a returned value is stored as the
\* result; an exception schedules the task again after retry_delay while
\* retries remain, and is stored as the result once none remains
after_attempt(t, r) ==
    IF r.exc = "none" THEN [t EXCEPT !.state = "completed", !.result = r.status]
    ELSE IF t.retries > 0
    THEN [t EXCEPT !.state = "scheduled", !.retries = @ - 1, !.eta = t.now + RetryDelay]
    ELSE [t EXCEPT !.state = "failed", !.result = r.exc]

TaskUnchanged == <<write_buffer, clock, flushes, last_op, db, conn, nodes_table, inserting>>

\* queue_set_schedule and its siblings: send_hub_command(command, command_id)
\* puts the task on the queue
queue_command ==
    /\ task.state = "none"
    /\ task' = [task EXCEPT !.state = "queued", !.retries = Retries, !.eta = task.now]
    /\ UNCHANGED TaskUnchanged
    /\ UNCHANGED SerialUnchanged

\* the consumer runs the task once it is due
execute_task(outcome) ==
    /\ task.state \in {"queued", "scheduled"}
    /\ task.now >= task.eta
    /\ task' = after_attempt(
                  [task EXCEPT !.attempts =
                      Append(@, [at |-> task.now, met |-> outcome,
                                 exc |-> send_hub_command(outcome).exc])],
                  send_hub_command(outcome))
    /\ UNCHANGED TaskUnchanged
    /\ UNCHANGED SerialUnchanged

\* 15 s pass; a task that is due is run before more time passes
task_tick ==
    /\ task.now < MaxTaskClock \/ task.state = "scheduled"
    /\ ~(task.state \in {"queued", "scheduled"} /\ task.now >= task.eta)
    /\ task' = [task EXCEPT !.now = @ + 1]
    /\ UNCHANGED TaskUnchanged
    /\ UNCHANGED SerialUnchanged

\* get_task_status(task_id): no result yet is "pending", an exception as
\* result is "failed", any other result is "completed"
get_task_status(t) ==
    IF t.result = "none" THEN "pending"
    ELSE IF t.result \in {"TimeoutError", "RuntimeError"} THEN "failed"
    ELSE "completed"

----------------------------------------------------------------------------
(* Initial state and specifications. *)

\* a WriteBuffer as its constructor leaves it, the database with its
\* connection open (init_db), and no task queued
InitAside(sizes, intervals) ==
    /\ clock = 0
    /\ write_buffer \in {WriteBuffer(m, i, 0) : m \in sizes, i \in intervals}
    /\ conn = "open"
    /\ nodes_table = <<>>
    /\ inserting = [t \in StoreThreads |-> NotInserting]
    /\ flushes = [n |-> 0, batch |-> <<>>, outcome |-> "none"]
    /\ last_op = NoOp
    /\ task = NoTask

\* the serial interface as __init__ leaves it
InitSerial(dbs) ==
    /\ serial_open = FALSE
    /\ running = FALSE
    /\ reader_pc = "none"
    /\ in_waiting = ""
    /\ buffer = ""
    /\ response_queue = <<>>
    /\ command_lock = Free
    /\ batch_state = NoBatch
    /\ has_db \in dbs
    /\ db = {}
    /\ tx = <<>>
    /\ pc = [c \in AllCallers |-> "idle"]
    /\ command = [c \in AllCallers |-> ""]
    /\ timeout = [c \in AllCallers |-> 0]
    /\ responses = [c \in AllCallers |-> <<>>]
    /\ elapsed = [c \in AllCallers |-> 0]
    /\ waited = [c \in AllCallers |-> 0]
    /\ result = [c \in AllCallers |-> NoResult]
    /\ calls = [c \in AllCallers |-> 0]
    /\ sent = <<>>
    /\ routed = [handled |-> <<>>, exc |-> "none"]
    /\ quiet_for = [c \in AllCallers |-> 0]
    /\ late = {}
    /\ discarded = {}
    /\ disconnects = [n |-> 0, exc |-> "none", was_open |-> FALSE]
    /\ order = [waiting |-> <<>>, served |-> <<>>]

\* the object as __init__ leaves it, for each choice of the database argument
InitWith(dbs) ==
    /\ InitAside({MaxSize}, {MaxInterval})
    /\ InitSerial(dbs)

\* the steps of a connected interface under an environment e: the hub sends
\* at most e.maxlines lines of e.lines, the reader routes them, each caller
\* of e.callers makes at most e.maxcalls calls with a command of e.cmds and
\* a timeout of e.timeouts; writes to the link may fail where e.wfail
Step(e) ==
    \/ connect
    \/ \E l \in e.lines : hub_send(l, e.maxlines)
    \/ \E wok \in {TRUE} \cup {~f : f \in e.wfail}, dbr \in e.dbrs, wd \in e.weekdays :
           read_loop(wok, dbr, wd)
    \/ \E c \in e.callers, cmd \in e.cmds, t \in e.timeouts :
           send_command_call(c, cmd, t, e.maxcalls)
    \/ \E c \in e.callers, wok \in {TRUE} \cup {~f : f \in e.wfail} :
           send_command_begin(c, wok)
    \/ \E c \in e.callers : send_command_line(c)
    \/ \E c \in e.callers : send_command_empty(c)
    \/ tick

\* an environment without failures: one caller, one call
Quiet == [callers |-> {"c1"}, cmds |-> {"PING"}, timeouts |-> {LongTimeout},
          lines |-> {"PONG"}, maxlines |-> MaxHubLines, maxcalls |-> MaxCalls,
          wfail |-> {}, dbrs |-> {"ok"}, weekdays |-> {0}]

(* Commands without a completion rule. *)
DefaultEnv == [Quiet EXCEPT !.cmds = {"PING", "DELETE_NODE 3"},
                            !.timeouts = {ShortTimeout, LongTimeout},
                            !.lines = {"PONG", "DELETED_NODE 3", "ERROR unknown"}]

NextDefault == Step(DefaultEnv)

SpecDefault == InitWith({TRUE}) /\ [][NextDefault]_vars

(* Two callers on one interface. *)
ExclEnv == [Quiet EXCEPT !.callers = {"c1", "c2"},
                         !.timeouts = {ShortTimeout},
                         !.lines = {"PONG", "ERROR unknown"}]

NextExcl == Step(ExclEnv)

SpecExcl == InitWith({TRUE}) /\ [][NextExcl]_vars

(* The router: every kind of line, well-formed and malformed, while a
   command may be in flight. *)
RouterLines ==
    {"GET_DATETIME", "GET_DATETIME now", "SENSOR_DATA 1 TEMP 2150", "SENSOR_DATA x",
     "SENSOR_DATA", "SENSOR_BATCH 3 2", "SENSOR_BATCH 3 two",
     "SENSOR_RECORD 3 100 2150 4500 0", "SENSOR_RECORD 3 abc",
     "BATCH_COMPLETE 3 2", "BATCH_COMPLETE 3", "PONG"}

RouterEnv == [Quiet EXCEPT !.timeouts = {ShortTimeout},
                           !.lines = RouterLines,
                           !.wfail = {TRUE},
                           !.weekdays = {6}]

NextRouter == Step(RouterEnv)

SpecRouter == InitWith({TRUE}) /\ [][NextRouter]_vars

(* The transport alone: connect, the hub, the reader and disconnect, with
   failing writes and failing storage, with and without a database. *)
NextTransport ==
    \/ connect
    \/ \E l \in RouterLines : hub_send(l, MaxHubLines)
    \/ \E wok \in BOOLEAN, dbr \in {"ok", "error", "raise"}, wd \in {0, 6} :
           read_loop(wok, dbr, wd)
    \/ read_loop_exit
    \/ disconnect_stop
    \/ disconnect_close

SpecTransport == InitWith(BOOLEAN) /\ [][NextTransport]_vars

(* The commands answered by one QUEUED line. *)
MutationEnv == [Quiet EXCEPT !.cmds = {"SET_SCHEDULE 3 0 14 30 900 127 0",
                                       "REMOVE_SCHEDULE 3 0",
                                       "SET_WAKE_INTERVAL 3 60",
                                       "SET_DATETIME 2026-01-04T10:00:00"},
                             !.lines = {"QUEUED SET_SCHEDULE 3 5", "ERROR busy"}]

NextMutation == Step(MutationEnv)

SpecMutation == InitWith({TRUE}) /\ [][NextMutation]_vars

(* LIST_NODES: a header and up to two NODE lines, in any order and timing. *)
ListEnv == [Quiet EXCEPT !.cmds = {"LIST_NODES"},
                         !.lines = {"NODE_LIST 2", "NODE_LIST 0",
                                    "NODE 1 a1b2 SENSOR 1 5", "NODE 2 c3d4 VALVE 0 9"},
                         !.maxlines = MaxItemLines]

NextList == Step(ListEnv)

SpecList == InitWith({TRUE}) /\ [][NextList]_vars

(* GET_QUEUE: a header and up to two UPDATE lines. *)
QueueEnv == [Quiet EXCEPT !.cmds = {"GET_QUEUE 3"},
                          !.lines = {"QUEUE 3 2", "QUEUE 3 0",
                                     "UPDATE 1 SET_SCHEDULE 10", "UPDATE 2 SET_WAKE_INTERVAL 4"},
                          !.maxlines = MaxItemLines]

NextQueue == Step(QueueEnv)

SpecQueue == InitWith({TRUE}) /\ [][NextQueue]_vars

(* One caller calling again after a call has ended. *)
RecallEnv == [Quiet EXCEPT !.timeouts = {ShortTimeout},
                           !.lines = {"PONG", "ERROR unknown"},
                           !.maxcalls = MaxRecalls]

NextRecall == Step(RecallEnv)

SpecRecall == InitWith({TRUE}) /\ [][NextRecall]_vars

(* Commands without a completion rule, with time passing and the thread of
   the caller scheduled again and again while it is in its polling loop. *)
SpecDefaultFair ==
    /\ SpecDefault
    /\ WF_vars(tick)
    /\ \A c \in DefaultEnv.callers :
           WF_vars(send_command_line(c)) /\ WF_vars(send_command_empty(c))

(* A caller on a link that may be closed, or whose writes may fail. *)
ClosedEnv == [Quiet EXCEPT !.timeouts = {ShortTimeout},
                           !.lines = {"PONG", "ERROR unknown"},
                           !.wfail = {TRUE}]

NextClosed ==
    \/ Step(ClosedEnv)
    \/ read_loop_exit
    \/ disconnect_stop
    \/ disconnect_close
    \/ disconnect_idle

SpecClosed == InitWith({TRUE}) /\ [][NextClosed]_vars

(* The batch receiver: batch starts, records and completions in every
   order and chunking, with and without a database, with failing writes. *)
BatchLines ==
    {"SENSOR_BATCH 3 2", "SENSOR_BATCH 4 1",
     "SENSOR_RECORD 3 100 2150 4500 0", "SENSOR_RECORD 3 130 2160 4400 1",
     "SENSOR_RECORD 3 abc", "BATCH_COMPLETE 3 2"}

NextBatch ==
    \/ connect
    \/ \E l \in BatchLines : hub_send(l, MaxBatchLines)
    \/ \E wok \in BOOLEAN : read_loop(wok, "ok", 0)

SpecBatch == InitWith(BOOLEAN) /\ [][NextBatch]_vars

(* Batch completions whose acknowledgment cannot be written: the write      *)
(* fails, or disconnect() has closed the link.                             *)
AckLines == {"SENSOR_BATCH 3 2", "SENSOR_BATCH 4 1", "BATCH_COMPLETE 3 2",
             "BATCH_COMPLETE 4 0", "GET_DATETIME"}

NextAck ==
    \/ connect
    \/ \E l \in AckLines : hub_send(l, MaxBatchLines)
    \/ \E wok \in BOOLEAN : read_loop(wok, "ok", 0)
    \/ disconnect_stop
    \/ read_loop_closed("ok", 0)
    \/ read_loop_exit

SpecAck == InitWith(BOOLEAN) /\ [][NextAck]_vars

(* The clock query on every day of the week, with failing writes. *)
ClockLines == {"GET_DATETIME", "GET_DATETIME now", "PONG"}

NextClock ==
    \/ connect
    \/ \E l \in ClockLines : hub_send(l, MaxHubLines)
    \/ \E wok \in BOOLEAN, wd \in 0..6 : read_loop(wok, "ok", wd)

SpecClock == InitWith({TRUE}) /\ [][NextClock]_vars

(* Three callers, one call each, on a link that answers or stays silent. *)
OrderEnv == [Quiet EXCEPT !.callers = {"c1", "c2", "c3"}, !.timeouts = {ShortTimeout},
                          !.maxlines = 1]

NextOrder == Step(OrderEnv)

SpecOrder == InitWith({FALSE}) /\ [][NextOrder]_vars

(* The write buffer and the database, used by several threads. *)
\* the readings the threads add to the buffer
BufferedReadings == {r \in Readings : r.temperature_centidegrees = 2500}

InitBuffer ==
    /\ InitSerial({TRUE})
    /\ InitAside(1..MaxSize, 1..MaxInterval)

NextBuffer ==
    \/ \E r \in BufferedReadings, dbr \in StorageOutcomes : add(r, dbr)
    \/ \E dbr \in StorageOutcomes : maybe_flush(dbr)
    \/ \E dbr \in StorageOutcomes : flush(dbr)
    \/ \E dbr \in StorageOutcomes : shutdown(dbr)
    \/ clock_tick

SpecBuffer == InitBuffer /\ [][NextBuffer]_vars

(* The database, used directly by several threads. *)
NextStore ==
    \/ \E r \in Readings, dbr \in {"ok", "error"} : insert_reading_call(r, dbr)
    \/ clock_tick

SpecStore == InitWith({TRUE}) /\ [][NextStore]_vars

(* The command queue. *)
NextTask ==
    \/ queue_command
    \/ \E outcome \in Attempts : execute_task(outcome)
    \/ task_tick

\* the consumer runs every due task, and time passes
SpecTask ==
    /\ InitWith({FALSE})
    /\ [][NextTask]_vars
    /\ WF_vars(\E outcome \in Attempts : execute_task(outcome))
    /\ WF_vars(task_tick)

----------------------------------------------------------------------------
(* Count headers of every shape: well-formed, without a count, with a count
   that is no number. *)
HeaderEnv == [Quiet EXCEPT !.cmds = {"LIST_NODES", "GET_QUEUE 3"},
                           !.timeouts = {ShortTimeout},
                           !.lines = {"NODE_LIST 1", "NODE_LIST", "NODE_LIST x",
                                      "QUEUE 3 0", "QUEUE 3", "QUEUE 3 x",
                                      "NODE 1 a1b2 SENSOR 1 5"}]

NextHeader == Step(HeaderEnv)

SpecHeader == InitWith({TRUE}) /\ [][NextHeader]_vars

----------------------------------------------------------------------------

(* Malformed push lines while a batch may be pending. *)
MalformedLines ==
    {"SENSOR_BATCH 3 2", "SENSOR_BATCH 3 two", "SENSOR_BATCH 3",
     "SENSOR_RECORD 3 abc", "SENSOR_RECORD 3 100 2150 x 0",
     "BATCH_COMPLETE 3", "BATCH_COMPLETE 3 x"}

NextMalformed ==
    \/ connect
    \/ \E l \in MalformedLines : hub_send(l, MaxBatchLines)
    \/ \E wok \in BOOLEAN : read_loop(wok, "ok", 0)

SpecMalformed == InitWith(BOOLEAN) /\ [][NextMalformed]_vars

(* The writes of the two threads, the caller's write and flush as two
   steps. *)
NextWrite ==
    \/ connect
    \/ \E l \in {"GET_DATETIME", "SENSOR_BATCH 3 0", "BATCH_COMPLETE 3 0", "PONG"} :
           hub_send(l, MaxHubLines)
    \/ \E wok \in BOOLEAN : read_loop(wok, "ok", 0)
    \/ \E c \in {"c1", "c2"} : send_command_call(c, "PING", ShortTimeout, MaxCalls)
    \/ \E c \in {"c1", "c2"}, wok \in BOOLEAN : send_command_write(c, wok)
    \/ \E c \in {"c1", "c2"}, fok \in BOOLEAN : send_command_flush(c, fok)
    \/ \E c \in {"c1", "c2"} : send_command_line(c)
    \/ \E c \in {"c1", "c2"} : send_command_empty(c)
    \/ tick

SpecWrite == InitWith({TRUE}) /\ [][NextWrite]_vars

(* A node list with push and query lines between its lines. *)
InterleaveEnv ==
    [Quiet EXCEPT !.cmds = {"LIST_NODES"},
                  !.timeouts = {ShortTimeout},
                  !.lines = {"NODE_LIST 1", "NODE 1 a1b2 SENSOR 1 5", "GET_DATETIME",
                             "SENSOR_DATA 1 TEMP 2150", "SENSOR_BATCH 3 1",
                             "SENSOR_RECORD 3 100 2150 4500 0", "BATCH_COMPLETE 3 1"},
                  !.maxlines = MaxItemLines]

NextInterleave == Step(InterleaveEnv)

SpecInterleave == InitWith({TRUE}) /\ [][NextInterleave]_vars

(* Two callers whose calls end in every way: by a line, by the timeout, by a
   failed write, by an exception of the completion rule. Time passes, the
   thread of a caller in its loop is scheduled, and the lock is fair: a caller
   that finds the lock free again and again gets it. *)
FinishEnv == [Quiet EXCEPT !.callers = {"c1", "c2"},
                           !.cmds = {"LIST_NODES"},
                           !.timeouts = {ShortTimeout},
                           !.lines = {"NODE_LIST x", "NODE_LIST 0"},
                           !.wfail = {TRUE}]

NextFinish == Step(FinishEnv)

SpecFinish ==
    /\ InitWith({TRUE})
    /\ [][NextFinish]_vars
    /\ WF_vars(tick)
    /\ \A c \in FinishEnv.callers :
           \* weak fairness of the step that takes a line from the queue, with
           \* its enabling condition written out
           /\ \/ []<>~(pc[c] = "poll" /\ response_queue # <<>>)
              \/ []<><<send_command_line(c)>>_vars
           /\ WF_vars(send_command_empty(c))
           \* strong fairness of the step that takes the lock
           /\ \/ <>[]~(pc[c] = "lock" /\ lock_free(command_lock))
              \/ []<><<\E wok \in BOOLEAN : send_command_begin(c, wok)>>_vars

(* The database under direct calls: lists of up to MaxListLen readings, and
   two threads inside insert_reading. *)
NextInsert ==
    \/ \E n \in 0..MaxListLen : \E rs \in [1..n -> Readings], k \in 0..n :
           insert_batch_call(rs, k)
    \/ \E t \in StoreThreads, r \in Readings : insert_reading_insert(t, r)
    \/ \E t \in StoreThreads : insert_reading_select(t)
    \/ \E t \in StoreThreads : insert_reading_update(t)

SpecInsert == InitWith({TRUE}) /\ [][NextInsert]_vars

(* Claims. *)

\* position of a line in the order the hub sent the lines
SentIndex(line) == CHOOSE i \in 1..Len(sent) : sent[i] = line

\* every line of response a was sent before every line of response b
Before(a, b) == \A x \in Range(a), y \in Range(b) : SentIndex(x) < SentIndex(y)

\* C1: at most one call is between the write of its command and the end of
\* its collection at any time, so a command is written only when no other
\* call is collecting; and the Responses of two calls do not interleave:
\* they share no line, and all lines of one precede, in wire order, all
\* lines of the other.
C1_Exclusive ==
    /\ Cardinality({c \in AllCallers : pc[c] = "poll"}) <= 1
    /\ \A c \in AllCallers : pc[c] = "poll" => command_lock = c
    /\ \A c, d \in AllCallers :
           c # d => /\ Range(responses[c]) \cap Range(responses[d]) = {}
                    /\ Before(responses[c], responses[d])
                       \/ Before(responses[d], responses[c])

\* one call has returned a Response and the other, which waited for the
\* lock meanwhile, is collecting a line of its own
C1_Witness ==
    /\ pc["c1"] = "done" /\ result["c1"].kind = "ok"
    /\ pc["c2"] = "poll" /\ responses["c2"] # <<>>
    /\ Len(tx) = 2

\* C2: a call that wrote its command returns only a non-empty list, raises
\* TimeoutError exactly when it collected no line, and then only once the
\* overall timeout has elapsed.
C2_NeverEmpty ==
    \A c \in AllCallers :
        pc[c] = "done" /\ result[c].kind # "RuntimeError" =>
            /\ result[c].kind = "ok" =>
                   result[c].lines # <<>> /\ result[c].lines = responses[c]
            /\ result[c].kind = "TimeoutError" <=> responses[c] = <<>>
            /\ result[c].kind = "TimeoutError" => elapsed[c] >= timeout[c]

\* a call has timed out without a line, although the hub had sent one
C2_Witness ==
    /\ pc["c1"] = "done" /\ result["c1"].kind = "TimeoutError"
    /\ sent # <<>>

\* the destination the routing rule names for a line: the query token, then
\* the push prefixes, then the response queue
PushVerbs == {"SENSOR_DATA", "SENSOR_BATCH", "SENSOR_RECORD", "BATCH_COMPLETE"}

RuleDest(line) ==
    IF line = "GET_DATETIME" THEN "datetime"
    ELSE IF \E v \in PushVerbs : StartsWith(line, v \o " ") THEN "push"
    ELSE "response"

DestKind(d) ==
    IF d \in {"sensor_data", "sensor_batch", "sensor_record", "batch_complete"}
    THEN "push" ELSE d

\* C3: every line the reader handled went to exactly one destination, the
\* one the priority rule names, and was appended to the response queue iff
\* that destination is the response queue; no query or push line is ever in
\* the response queue or in a Response.
C3_Routing ==
    /\ \A i \in 1..Len(routed.handled) :
           LET h == routed.handled[i]
           IN  /\ Len(h.dests) = 1
               /\ DestKind(h.dests[1]) = RuleDest(h.line)
               /\ h.queued = (IF RuleDest(h.line) = "response" THEN 1 ELSE 0)
    /\ \A l \in Range(response_queue) : RuleDest(l) = "response"
    /\ \A c \in AllCallers : \A l \in Range(responses[c]) : RuleDest(l) = "response"

\* a push line and a query were routed in one read while a command was in
\* flight
C3_Witness ==
    /\ pc["c1"] = "poll"
    /\ \E i \in 1..Len(routed.handled) : routed.handled[i].dests = <<"datetime">>
    /\ \E i \in 1..Len(routed.handled) : DestKind(routed.handled[i].dests[1]) = "push"

\* C4: while the interface is connected (running, port open) the reader loop
\* is running, whatever lines were received and whatever failed inside a
\* handler.
C4_ReaderSurvives ==
    /\ reader_pc # "crashed"
    /\ running /\ serial_open => reader_pc = "loop"

\* an exception escaped a handler into the reader loop, which goes on
C4_Witness ==
    /\ routed.exc # "none"
    /\ running /\ serial_open /\ reader_pc = "loop"

\* the first blank-separated word of a command
Verb(cmd) == IF Split(cmd) = <<>> THEN "" ELSE Split(cmd)[1]

MutationVerbs == {"SET_SCHEDULE", "REMOVE_SCHEDULE", "SET_WAKE_INTERVAL", "SET_DATETIME"}

Last(seq) == seq[Len(seq)]

\* the call of caller c has returned a Response
Returned(c) == pc[c] = "done" /\ result[c].kind = "ok"

\* C5: for SET_SCHEDULE, REMOVE_SCHEDULE, SET_WAKE_INTERVAL and SET_DATETIME
\* a call is never still collecting once it holds a line that starts with
\* QUEUED; a returned Response holds such a line only as its last line and
\* was then ended by that line; and when the one line the hub sent is a
\* QUEUED line, the Response is exactly that line.
C5_Queued ==
    \A c \in AllCallers :
        pc[c] # "idle" /\ Verb(command[c]) \in MutationVerbs =>
            /\ pc[c] = "poll" =>
                   \A l \in Range(responses[c]) : ~StartsWith(l, "QUEUED")
            /\ Returned(c) =>
                   /\ \A i \in 1..Len(result[c].lines) :
                          StartsWith(result[c].lines[i], "QUEUED") =>
                              i = Len(result[c].lines) /\ result[c].how = "predicate"
                   /\ result[c].how = "predicate" =>
                          StartsWith(Last(result[c].lines), "QUEUED")
                   /\ Len(sent) = 1 /\ StartsWith(sent[1], "QUEUED") =>
                          result[c].lines = sent

\* SET_SCHEDULE 3 0 14 30 900 127 0 answered by QUEUED SET_SCHEDULE 3 5 has
\* returned that one line, at once
C5_Witness ==
    /\ command["c1"] = "SET_SCHEDULE 3 0 14 30 900 127 0"
    /\ Returned("c1")
    /\ result["c1"].lines = <<"QUEUED SET_SCHEDULE 3 5">>
    /\ elapsed["c1"] = 0

\* the count N of a header line, its k-th word (NODE_LIST N: the 2nd, QUEUE
\* <addr> N: the 3rd), -1 when the line is no header
CountOf(rs, header, k) ==
    IF rs # <<>> /\ StartsWith(rs[1], header) /\ HeaderCount(rs[1], k).exc = "none"
    THEN HeaderCount(rs[1], k).val ELSE -1

\* the header-count pattern as claimed: with a header of N > 0 items, a call
\* returns only once N item lines have followed
CountedExactly(cmd, header, k, item) ==
    \A c \in AllCallers :
        Returned(c) /\ command[c] = cmd /\ CountOf(result[c].lines, header, k) > 0 =>
            CountPrefix(Tail(result[c].lines), item) >= CountOf(result[c].lines, header, k)

\* the header-count pattern of the code: with a header of N > 0 items no
\* line completes the call before the N-th item line and that line completes
\* it at once, but the call may end earlier, with fewer lines, by an empty
\* poll later than 0.5 s after the start or by the overall timeout
CountedOrCutOff(cmd, header, k, item) ==
    \A c \in AllCallers :
        LET n == CountOf(responses[c], header, k)
            items == CountPrefix(Tail(responses[c]), item)
        IN  pc[c] # "idle" /\ command[c] = cmd /\ n > 0 =>
                /\ pc[c] = "poll" => items < n
                /\ Returned(c) =>
                       /\ result[c].how = "predicate" <=> items >= n
                       /\ result[c].how = "predicate" =>
                              items = n /\ StartsWith(Last(result[c].lines), item)
                       /\ result[c].how = "quiet" =>
                              elapsed[c] > QuietFloorTicks /\ items < n
                       /\ result[c].how = "timeout" =>
                              elapsed[c] >= timeout[c] /\ items < n

\* the header alone completes a list of no items
HeaderAlone(cmd, header, k) ==
    \A c \in AllCallers :
        pc[c] # "idle" /\ command[c] = cmd /\ Len(responses[c]) = 1
        /\ CountOf(responses[c], header, k) = 0 =>
            /\ pc[c] # "poll"
            /\ pc[c] = "done" =>
                   /\ result[c].kind = "ok" /\ result[c].how = "predicate"
                   /\ result[c].lines = responses[c]

\* C6 as claimed: a LIST_NODES call whose header is NODE_LIST N, N > 0,
\* returns only when the N-th NODE line has been received.
C6_Original == CountedExactly("LIST_NODES", "NODE_LIST", 2, "NODE ")

\* C6 as amended: for LIST_NODES with header NODE_LIST N, N > 0, no arriving
\* line completes the call before the N-th NODE line and the N-th completes
\* it at once (with N = 2 and only NODE lines after the header the Response
\* has 3 lines); but an empty 0.1 s poll later than 0.5 s after the start, or
\* the overall timeout, ends the call earlier with fewer than N NODE lines.
C6_NodeList ==
    /\ CountedOrCutOff("LIST_NODES", "NODE_LIST", 2, "NODE ")
    /\ \A c \in AllCallers :
           Returned(c) /\ result[c].how = "predicate"
           /\ CountOf(result[c].lines, "NODE_LIST", 2) = 2
           /\ (\A i \in 2..Len(result[c].lines) : StartsWith(result[c].lines[i], "NODE "))
           => Len(result[c].lines) = 3

\* NODE_LIST 2 and its two NODE lines arrived in separate reads, 0.1 s
\* apart, and the second NODE line ended the call
C6_Witness ==
    /\ Returned("c1") /\ result["c1"].how = "predicate"
    /\ result["c1"].lines =
           <<"NODE_LIST 2", "NODE 1 a1b2 SENSOR 1 5", "NODE 2 c3d4 VALVE 0 9">>
    /\ elapsed["c1"] >= 2

\* C7: a LIST_NODES call that holds the header NODE_LIST 0 as its only line
\* is not collecting any more: it has returned that one line, ended by the
\* completion rule and not by the quiet period or the timeout.
C7_EmptyList == HeaderAlone("LIST_NODES", "NODE_LIST", 2)

\* NODE_LIST 0 has been returned alone before any time has passed
C7_Witness ==
    /\ Returned("c1") /\ result["c1"].lines = <<"NODE_LIST 0">>
    /\ result["c1"].how = "predicate" /\ elapsed["c1"] = 0

\* C8 as claimed: a GET_QUEUE call whose header is QUEUE <addr> N, N > 0,
\* returns only when N UPDATE lines have followed the header.
C8_Original == CountedExactly("GET_QUEUE 3", "QUEUE", 3, "UPDATE ")

\* C8 as amended: GET_QUEUE follows the header-count pattern of LIST_NODES:
\* the header QUEUE <addr> 0 alone completes the call; with N > 0 no arriving
\* line completes it before the N-th UPDATE line and the N-th completes it at
\* once; but an empty 0.1 s poll later than 0.5 s after the start, or the
\* overall timeout, ends the call earlier with fewer than N UPDATE lines.
C8_Queue ==
    /\ HeaderAlone("GET_QUEUE 3", "QUEUE", 3)
    /\ CountedOrCutOff("GET_QUEUE 3", "QUEUE", 3, "UPDATE ")

\* QUEUE 3 2 and its two UPDATE lines arrived in separate reads and the
\* second UPDATE line ended the call
C8_Witness ==
    /\ Returned("c1") /\ result["c1"].how = "predicate"
    /\ result["c1"].lines =
           <<"QUEUE 3 2", "UPDATE 1 SET_SCHEDULE 10", "UPDATE 2 SET_WAKE_INTERVAL 4">>
    /\ elapsed["c1"] >= 2

\* a command without a completion rule
NoRule(cmd) == Verb(cmd) \in {"PING", "DELETE_NODE", "REBOOT_NODE"}

\* the step of caller c is a poll of the response queue that ended empty
EmptyPoll(c) ==
    /\ pc[c] = "poll" /\ waited[c] >= PollTicks
    /\ waited'[c] = 0 /\ responses'[c] = responses[c] /\ elapsed'[c] = elapsed[c]

\* the claim of C9 for a quiet period of q ticks: a call that holds a line
\* is not left collecting once q ticks, and the poll that notices it, have
\* passed since its latest line, and it is not ended by quiet before q ticks
\* have passed since that line
QuietPeriodIs(q) ==
    \A c \in AllCallers :
        pc[c] # "idle" /\ NoRule(command[c]) =>
            /\ pc[c] = "poll" /\ responses[c] # <<>> /\ elapsed[c] < timeout[c] =>
                   quiet_for[c] <= q + PollTicks
            /\ Returned(c) /\ result[c].how = "quiet" => quiet_for[c] >= q

\* C9 as claimed: a call without a completion rule that holds a line
\* completes when the quiet period has passed since its most recently
\* received line, and not before; the quiet period is one of the two
\* durations of the loop, the 0.1 s poll or the 0.5 s floor.
C9_Original == []QuietPeriodIs(PollTicks) \/ []QuietPeriodIs(QuietFloorTicks)

\* C9 as amended: a call without a completion rule never completes on the
\* arrival of a line unless the overall timeout has elapsed; it completes at
\* the first 0.1 s poll that ends empty later than 0.5 s after the START of
\* the call while it holds a line (however recently that line arrived), or
\* when the overall timeout elapses, whichever is first; no empty poll
\* completes it earlier, and lines that arrive less than a poll apart never
\* let a poll end empty.
C9_QuietFloor ==
    [][\A c \in AllCallers :
           pc[c] = "poll" /\ NoRule(command[c]) =>
               /\ pc'[c] = "done" =>
                      \/ elapsed[c] >= timeout[c]
                      \/ EmptyPoll(c) /\ responses[c] # <<>>
                         /\ elapsed[c] > QuietFloorTicks
               /\ EmptyPoll(c) /\ responses[c] # <<>> /\ elapsed[c] > QuietFloorTicks =>
                      pc'[c] = "done" /\ result'[c].lines = responses[c]
               /\ EmptyPoll(c) /\ elapsed[c] <= QuietFloorTicks
                  /\ elapsed[c] < timeout[c] => pc'[c] = "poll"
               /\ responses'[c] # responses[c] /\ elapsed[c] < timeout[c] =>
                      pc'[c] = "poll"]_vars

\* a call returned two lines by quiet although its latest line was only one
\* poll old, after it had waited through empty polls in its first 0.5 s
C9_Witness ==
    /\ NoRule(command["c1"]) /\ Returned("c1") /\ result["c1"].how = "quiet"
    /\ Len(result["c1"].lines) = 2
    /\ quiet_for["c1"] = PollTicks

\* C10: no line the hub sent between the failure of a timed-out call and the
\* start of the next call is ever collected by a later call.
C10_Original ==
    \A c \in AllCallers : Range(responses[c]) \cap late = {}

\* the step starts a call of caller c
CallStarts(c) == calls'[c] = calls[c] + 1

\* C11: a call started while the link is not open ends at once with
\* RuntimeError and leaves the link, the command lock and the response queue
\* as they were; a call passes the write only with its command written once,
\* and a call whose write failed ends with RuntimeError, nothing written,
\* and the engine never writes for it again.
C11_NotOpen ==
    [][\A c \in AllCallers :
           /\ CallStarts(c) /\ ~serial_open =>
                  /\ pc'[c] = "done" /\ result'[c].kind = "RuntimeError"
                  /\ tx' = tx /\ command_lock' = command_lock
                  /\ response_queue' = response_queue /\ discarded' = discarded
           /\ pc[c] = "lock" /\ pc'[c] # "lock" =>
                  \/ /\ tx' = Append(tx, command[c])
                     /\ result'[c].kind # "RuntimeError"
                  \/ /\ tx' = tx
                     /\ pc'[c] = "done" /\ result'[c].kind = "RuntimeError"
                     /\ command_lock' = Free
           /\ pc[c] = "done" /\ result[c].kind = "RuntimeError" /\ ~CallStarts(c) =>
                  /\ tx' # Append(tx, command[c])
                  /\ pc'[c] = "done" /\ result'[c] = result[c]]_vars

\* a call on a closed link has raised RuntimeError with a line still in the
\* response queue and nothing written
C11_Witness ==
    /\ ~serial_open
    /\ pc["c1"] = "done" /\ result["c1"].kind = "RuntimeError"
    /\ response_queue # <<>> /\ tx = <<>>

\* the step is an iteration of the reader that read the bytes waiting
ReadStep == in_waiting # "" /\ in_waiting' = ""

\* the hub has sent exactly these lines, the reader has handled them all,
\* the last of them without a failed write, and a database is configured
Delivered(lines) ==
    /\ has_db
    /\ sent = lines /\ in_waiting = "" /\ buffer = ""
    /\ routed.handled # <<>>
    /\ Last(routed.handled).line = Last(lines)
    /\ Last(routed.handled).wfailed = 0

\* well-formed push lines: enough fields, integers where the format has them
WellFormedStart(line) ==
    /\ StartsWith(line, "SENSOR_BATCH ")
    /\ Len(Split(line)) >= 3 /\ IsInt(Split(line)[2]) /\ IsInt(Split(line)[3])

WellFormedRecord(line) ==
    /\ StartsWith(line, "SENSOR_RECORD ")
    /\ Len(Split(line)) >= 6 /\ \A i \in 2..6 : IsInt(Split(line)[i])

WellFormedComplete(line) ==
    /\ StartsWith(line, "BATCH_COMPLETE ")
    /\ Len(Split(line)) >= 3 /\ IsInt(Split(line)[2]) /\ IsInt(Split(line)[3])

\* C12: once SENSOR_BATCH 3 2, two well-formed SENSOR_RECORD lines with new
\* keys and BATCH_COMPLETE 3 2 have been handled, with a database and a
\* working link, exactly those two readings are stored, the one line written
\* is BATCH_ACK 3 2 0, and the receiver is Idle.
C12_Original ==
    Delivered(<<"SENSOR_BATCH 3 2", "SENSOR_RECORD 3 100 2150 4500 0",
                "SENSOR_RECORD 3 130 2160 4400 1", "BATCH_COMPLETE 3 2">>) =>
        /\ Cardinality(db) = 2
        /\ {r.timestamp : r \in db} = {100, 130}
        /\ tx = <<"BATCH_ACK 3 2 0">>
        /\ batch_state = NoBatch

\* C13: once SENSOR_BATCH 3 2, one well-formed SENSOR_RECORD line and
\* BATCH_COMPLETE 3 2 (a count of 2 for 1 record) have been handled, the one
\* record is stored, BATCH_ACK 3 1 0 is written and the receiver is Idle.
C13_Original ==
    Delivered(<<"SENSOR_BATCH 3 2", "SENSOR_RECORD 3 100 2150 4500 0",
                "BATCH_COMPLETE 3 2">>) =>
        /\ Cardinality(db) = 1
        /\ tx = <<"BATCH_ACK 3 1 0">>
        /\ batch_state = NoBatch

\* C14: a well-formed BATCH_COMPLETE handled for a pending batch without
\* records returns the receiver to Idle, stores nothing and makes one write,
\* of BATCH_ACK <addr> 0 1 (the one line written unless that write fails);
\* also when the batch start arrived in the same read.
C14_EmptyBatchAck ==
    [][ReadStep /\ routed'.handled # <<>>
       /\ WellFormedComplete(Last(routed'.handled).line)
       /\ \/ /\ Len(routed'.handled) = 1
             /\ batch_state.active /\ batch_state.records = <<>>
          \/ /\ Len(routed'.handled) = 2
             /\ WellFormedStart(routed'.handled[1].line)
       => /\ batch_state' = NoBatch
          /\ db' = db
          /\ routed'.exc = "none"
          /\ IF Last(routed'.handled).wfailed = 0
             THEN tx' = Append(tx, "BATCH_ACK "
                                   \o Split(Last(routed'.handled).line)[2] \o " 0 1")
             ELSE tx' = tx /\ Last(routed'.handled).wfailed = 1]_vars

\* SENSOR_BATCH 3 2 was followed by BATCH_COMPLETE 3 2 with no record sent
\* in between, and BATCH_ACK 3 0 1 has been written
C14_Witness ==
    /\ sent = <<"SENSOR_BATCH 3 2", "BATCH_COMPLETE 3 2">>
    /\ tx = <<"BATCH_ACK 3 0 1">>
    /\ batch_state = NoBatch

\* C15: a read that handles only SENSOR_RECORD and BATCH_COMPLETE lines
\* while no batch is pending changes nothing: the receiver stays Idle,
\* nothing is stored, written or queued, and no exception reaches the loop.
C15_IdleDrop ==
    [][ReadStep /\ batch_state = NoBatch /\ routed'.handled # <<>>
       /\ (\A i \in 1..Len(routed'.handled) :
               \/ StartsWith(routed'.handled[i].line, "SENSOR_RECORD ")
               \/ StartsWith(routed'.handled[i].line, "BATCH_COMPLETE "))
       => /\ batch_state' = NoBatch
          /\ db' = db /\ tx' = tx /\ response_queue' = response_queue
          /\ routed'.exc = "none" /\ reader_pc' = "loop"
          /\ buffer' = ""]_vars

\* a record and a completion were handled in Idle and left no trace
C15_Witness ==
    /\ sent = <<"SENSOR_RECORD 3 100 2150 4500 0", "BATCH_COMPLETE 3 2">>
    /\ Len(routed.handled) = 2
    /\ batch_state = NoBatch /\ tx = <<>> /\ db = {}

\* C16: after a read whose last line is a well-formed SENSOR_BATCH <addr> N
\* the one pending batch is that batch, with no records, whatever was
\* pending before; a read of batch starts only stores and writes nothing.
C16_OneBatch ==
    [][ReadStep /\ routed'.handled # <<>>
       /\ WellFormedStart(Last(routed'.handled).line)
       => LET parts == Split(Last(routed'.handled).line)
          IN  /\ batch_state' = [active |-> TRUE, node_addr |-> ParseInt(parts[2]),
                                 expected_count |-> ParseInt(parts[3]),
                                 records |-> <<>>]
              /\ (\A i \in 1..Len(routed'.handled) :
                      WellFormedStart(routed'.handled[i].line))
                 => db' = db /\ tx' = tx]_vars

\* the batch of node 3 was pending, with a record sent for it, when the
\* batch of node 4 started and replaced it
C16_Witness ==
    /\ sent = <<"SENSOR_BATCH 3 2", "SENSOR_RECORD 3 100 2150 4500 0", "SENSOR_BATCH 4 1">>
    /\ routed.handled # <<>> /\ Len(routed.handled) = 1
    /\ batch_state = [active |-> TRUE, node_addr |-> 4, expected_count |-> 1,
                      records |-> <<>>]
    /\ tx = <<>> /\ db = {}

\* C17: a read of one well-formed SENSOR_RECORD line while a batch is
\* pending appends one reading, with the timestamp of the line, to the end
\* of the records list and leaves the batch pending.
C17_Original ==
    [][ReadStep /\ batch_state.active /\ Len(routed'.handled) = 1
       /\ WellFormedRecord(routed'.handled[1].line)
       => /\ batch_state'.active
          /\ Len(batch_state'.records) = Len(batch_state.records) + 1
          /\ Last(batch_state'.records).timestamp
                 = ParseInt(Split(routed'.handled[1].line)[3])
          /\ routed'.exc = "none"]_vars

\* the lines of seq appear in the order the hub sent them
InWireOrder(seq) ==
    \A i, j \in 1..Len(seq) : i < j => SentIndex(seq[i]) < SentIndex(seq[j])

HandledLines(r) == [i \in 1..Len(r.handled) |-> r.handled[i].line]

\* C18: the reader handles lines in the order the hub sent them, within one
\* read and from one read to the next; the response queue holds its lines
\* in wire order, and every call has collected its lines in wire order, all
\* of them sent before the lines still queued.
C18_WireOrder ==
    [][/\ InWireOrder(HandledLines(routed'))
       /\ InWireOrder(response_queue')
       /\ \A c \in AllCallers : InWireOrder(responses'[c] \o response_queue')
       /\ \A c \in AllCallers :
              pc'[c] = "done" /\ result'[c].kind = "ok" => InWireOrder(result'[c].lines)
       /\ ReadStep /\ routed.handled # <<>> /\ routed'.handled # <<>>
          => SentIndex(Last(routed.handled).line) < SentIndex(routed'.handled[1].line)]_vars

\* a call has returned the two lines the hub sent, which were queued
\* together, in the order sent
C18_Witness ==
    /\ Len(sent) = 2
    /\ Returned("c1") /\ result["c1"].lines = sent
    /\ Len(routed.handled) = 2

\* C19: a read of one GET_DATETIME line is answered by the reader itself:
\* the line goes to the query handler only, the one line written is the
\* DATETIME reply (none only if that write raises), and the command lock,
\* the response queue and every call in flight are left as they are.
C19_ClockReply ==
    [][ReadStep /\ Len(routed'.handled) = 1 /\ routed'.handled[1].line = "GET_DATETIME"
       => /\ routed'.handled[1].dests = <<"datetime">>
          /\ routed'.exc = "none"
          /\ IF routed'.handled[1].wfailed = 0
             THEN /\ Len(tx') = Len(tx) + 1 /\ SubSeq(tx', 1, Len(tx)) = tx
                  /\ StartsWith(Last(tx'), "DATETIME 2026-01-01 00:00:00 ")
             ELSE tx' = tx
          /\ response_queue' = response_queue
          /\ command_lock' = command_lock
          /\ pc' = pc /\ responses' = responses /\ result' = result]_vars

\* the reply was written while a call held the command lock and was
\* collecting, and the response queue is empty
C19_Witness ==
    /\ command_lock = "c1" /\ pc["c1"] = "poll"
    /\ tx = <<"PING", "DATETIME 2026-01-01 00:00:00 0">>
    /\ response_queue = <<>> /\ responses["c1"] = <<>>

\* the weekday field of a DATETIME reply, as the hub parses it
WeekdayField(reply) == ParseInt(Split(reply)[4])

\* C20: the weekday field of the DATETIME reply written for system weekday
\* w (0 = Monday .. 6 = Sunday) is (w + 1) mod 7: it is in 0..6, 0 for
\* Sunday and w + 1 for Monday to Saturday.
C20_Weekday ==
    [][ReadStep /\ Len(routed'.handled) = 1 /\ routed'.handled[1].line = "GET_DATETIME"
       /\ routed'.handled[1].wfailed = 0
       => LET w == routed'.handled[1].wd
              v == WeekdayField(Last(tx'))
          IN  /\ w \in 0..6
              /\ v \in 0..6
              /\ v = (w + 1) % 7
              /\ w = 6 => v = 0
              /\ w \in 0..5 => v = w + 1]_vars

\* on a Sunday the reply carries weekday 0
C20_Witness ==
    /\ routed.handled # <<>> /\ Last(routed.handled).wd = 6
    /\ tx # <<>> /\ Last(tx) = "DATETIME 2026-01-01 00:00:00 0"


----------------------------------------------------------------------------
(* The write buffer. *)

\* C21: an add that brings the buffer to fewer than max_size readings makes
\* no flush and leaves the reading in the buffer; an add that brings it to
\* max_size makes exactly one flush, inside the call, and hands insert_batch
\* the max_size readings: those buffered before, in order, then the new one.
C21_SizeFlush ==
    last_op.op = "add" =>
        IF Len(last_op.before) + 1 < write_buffer.max_size
        THEN /\ last_op.flushed = 0
             /\ write_buffer.buffer = last_op.before \o last_op.arg
        ELSE /\ last_op.flushed = 1
             /\ flushes.n > 0
             /\ flushes.batch = last_op.before \o last_op.arg
             /\ Len(flushes.batch) = write_buffer.max_size

C21_Witness ==
    /\ last_op.op = "add"
    /\ write_buffer.max_size = 3
    /\ last_op.flushed = 1
    /\ last_op.returned
    /\ flushes.n = 1
    /\ Len(flushes.batch) = 3

\* C22: whenever no operation of the buffer is in progress, the buffer holds
\* fewer than max_size readings.
C22_BelowMax ==
    ~write_buffer.locked => Len(write_buffer.buffer) < write_buffer.max_size

C22_Witness ==
    /\ ~write_buffer.locked
    /\ write_buffer.max_size = 3
    /\ Len(write_buffer.buffer) = 2
    /\ flushes.n = 1
    /\ last_op.op = "add"

\* C23: maybe_flush makes exactly one flush when the buffer is non-empty and
\* at least flush_interval has passed since the last flush, whatever the
\* size of the buffer, and no flush otherwise; a maybe_flush that follows a
\* flushing maybe_flush makes no flush.
C23_IntervalFlush ==
    /\ [](last_op.op = "maybe_flush" =>
            last_op.flushed =
                (IF last_op.before # <<>> /\ last_op.elapsed >= write_buffer.flush_interval
                 THEN 1 ELSE 0))
    /\ [][(/\ last_op.op = "maybe_flush" /\ last_op.flushed = 1
           /\ last_op' # last_op /\ last_op'.op = "maybe_flush")
          => last_op'.flushed = 0]_vars

C23_Witness ==
    /\ last_op.op = "maybe_flush"
    /\ last_op.flushed = 1
    /\ last_op.returned
    /\ Len(last_op.before) = 1
    /\ write_buffer.max_size = 3
    /\ last_op.elapsed = 2
    /\ write_buffer.flush_interval = 2

\* C24: a flush of a non-empty buffer that comes back leaves the buffer
\* empty and sets last_flush to the time of the flush, whether insert_batch
\* succeeded, answered a database error or raised; no exception reaches the
\* caller of add, flush, maybe_flush or shutdown.
C24_FlushClears ==
    (last_op.op \in {"add", "flush", "maybe_flush", "shutdown"}
     /\ last_op.flushed = 1 /\ last_op.returned) =>
        /\ write_buffer.buffer = <<>>
        /\ write_buffer.last_flush = last_op.at
        /\ last_op.exc = "none"
        /\ flushes.outcome \in {"ok", "error", "raise"}

C24_Witness ==
    /\ last_op.op = "flush"
    /\ last_op.flushed = 1
    /\ last_op.returned
    /\ flushes.outcome = "raise"
    /\ flushes.batch = last_op.before
    /\ last_op.at > 0
    /\ write_buffer.buffer = <<>>

\* C25: when shutdown has returned, the buffer is empty, and if the buffer
\* held readings when shutdown was called, the last list handed to
\* insert_batch is exactly those readings.
C25_ShutdownFlush ==
    (last_op.op = "shutdown" /\ last_op.returned) =>
        /\ write_buffer.buffer = <<>>
        /\ last_op.before # <<>> =>
              /\ last_op.flushed = 1
              /\ flushes.batch = last_op.before

C25_Witness ==
    /\ last_op.op = "shutdown"
    /\ last_op.returned
    /\ Len(last_op.before) = 2
    /\ flushes.batch = last_op.before
    /\ write_buffer.buffer = <<>>

----------------------------------------------------------------------------
(* The database. *)

\* C26: an insert_reading of a reading whose (device_id, timestamp) is
\* already stored, once it returns, has raised nothing and returned False,
\* and the table is as before: one row for the pair, with the values of
\* the first insert.
C26_DuplicateNoOp ==
    (/\ last_op.op = "insert_reading"
     /\ last_op.returned
     /\ \E x \in last_op.rows :
           /\ x.device_id = last_op.arg[1].device_id
           /\ x.timestamp = last_op.arg[1].timestamp) =>
        /\ last_op.exc = "none"
        /\ last_op.ret = "False"
        /\ db = last_op.rows
        /\ Cardinality({x \in db : /\ x.device_id = last_op.arg[1].device_id
                                   /\ x.timestamp = last_op.arg[1].timestamp}) = 1

C26_Witness ==
    /\ last_op.op = "insert_reading"
    /\ last_op.returned
    /\ last_op.ret = "False"
    /\ conn = "open"
    /\ last_op.arg[1] \notin db
    /\ \E x \in db :
          /\ x.device_id = last_op.arg[1].device_id
          /\ x.timestamp = last_op.arg[1].timestamp
          /\ x.temperature_centidegrees # last_op.arg[1].temperature_centidegrees

----------------------------------------------------------------------------
(* The command queue. *)

----------------------------------------------------------------------------
(* Order of service and disconnect. *)

\* position of a caller in the order the commands were written
ServedIndex(c) == CHOOSE i \in 1..Len(order.served) : order.served[i] = c

\* C28: of two callers that blocked on the command lock while another call
\* held it, the one that blocked first has its command written first.
C28_Original ==
    \A i, j \in 1..Len(order.waiting) :
        (i < j /\ order.waiting[j] \in Range(order.served)) =>
            /\ order.waiting[i] \in Range(order.served)
            /\ ServedIndex(order.waiting[i]) < ServedIndex(order.waiting[j])

\* the step is the return of a disconnect() call
DisconnectReturns == disconnects'.n = disconnects.n + 1

\* C29: when disconnect returns, the reader has been told to stop, the
\* handle is closed and nothing was raised; a disconnect on an interface
\* that is stopped and closed (a second disconnect, or one before connect)
\* changes nothing; and a send_command started on the stopped and closed
\* interface raises RuntimeError.
C29_Idempotent ==
    [][/\ DisconnectReturns =>
              /\ ~running' /\ ~serial_open'
              /\ disconnects'.exc = "none"
              /\ (~running /\ ~serial_open) =>
                    /\ reader_pc' = reader_pc /\ in_waiting' = in_waiting
                    /\ buffer' = buffer /\ response_queue' = response_queue
                    /\ batch_state' = batch_state /\ tx' = tx
                    /\ command_lock' = command_lock /\ pc' = pc /\ result' = result
       /\ \A c \in AllCallers :
              (CallStarts(c) /\ disconnects.n > 0 /\ ~running /\ ~serial_open) =>
                  /\ result'[c].kind = "RuntimeError"
                  /\ pc'[c] = "done"]_vars

\* disconnect was called before connect and twice after it, and a call
\* made on the closed interface has raised RuntimeError
C29_Witness ==
    /\ disconnects.n = 3
    /\ ~disconnects.was_open
    /\ disconnects.exc = "none"
    /\ reader_pc = "exited"
    /\ ~running /\ ~serial_open
    /\ pc["c1"] = "done" /\ result["c1"].kind = "RuntimeError"

----------------------------------------------------------------------------
(* Line framing. *)

\* C30: the lines handed to the router are the segments between newlines of
\* the bytes received, however the bytes were split into reads: once the
\* reader has read all the bytes the hub sent, every segment whose newline
\* has arrived has been handed over, and only an unterminated trailing
\* segment is left in the buffer.
C30_Original ==
    (reader_pc = "loop" /\ in_waiting = "") => Find(buffer, NL, 1) = 0

----------------------------------------------------------------------------
(* The acknowledgment of a batch. *)

\* C31: when a read ends with a well-formed BATCH_COMPLETE handled for a
\* pending batch and no acknowledgment is written, because the write failed
\* or the link was no longer open, no exception reaches the reader loop,
\* the receiver is back in Idle, and every stored row is still stored.
C31_AckAbsorbed ==
    [][(/\ ReadStep /\ routed'.handled # <<>>
        /\ WellFormedComplete(Last(routed'.handled).line)
        /\ \/ Len(routed'.handled) = 1 /\ batch_state.active
           \/ /\ Len(routed'.handled) > 1
              /\ WellFormedStart(routed'.handled[Len(routed'.handled) - 1].line)
        /\ (Last(routed'.handled).wfailed > 0 \/ ~serial_open'))
       => /\ routed'.exc = "none"
          /\ reader_pc' = "loop"
          /\ batch_state' = NoBatch
          /\ db \subseteq db']_vars

\* the link was closed while a completion was handled: nothing was written
\* and the batch is cleared
C31_Witness ==
    /\ ~serial_open /\ disconnects.n = 1
    /\ routed.handled # <<>>
    /\ Last(routed.handled).line = "BATCH_COMPLETE 3 2"
    /\ sent = <<"SENSOR_BATCH 3 2", "BATCH_COMPLETE 3 2">>
    /\ batch_state = NoBatch
    /\ tx = <<>>
    /\ routed.exc = "none"

----------------------------------------------------------------------------
(* Errors in handlers. *)

\* C32: when the handling of a line has raised and the reader has no bytes
\* left to read, every complete line received after that line has been
\* handed to the router as well: none waits in the buffer for further bytes
\* from the hub.
C32_Original ==
    (routed.exc # "none" /\ in_waiting = "") => Find(buffer, NL, 1) = 0

\* C33: a call that has ended has ended in one of three ways: it returned its
\* lines, it raised TimeoutError, or it raised RuntimeError; this whatever
\* lines the hub sent in reply, count headers without a count or with a
\* non-numeric count included.
C33_Original ==
    \A c \in {"c1"} :
        pc[c] = "done" => result[c].kind \in {"ok", "TimeoutError", "RuntimeError"}

\* C34: a read that hands the router one malformed SENSOR_BATCH, SENSOR_RECORD
\* or BATCH_COMPLETE line (too few fields, or a field that is no integer)
\* while a batch is pending leaves the pending batch as it was: its node, its
\* expected count and its collected records.
C34_Original ==
    [][(/\ ReadStep /\ batch_state.active
        /\ Len(routed'.handled) = 1
        /\ LET line == routed'.handled[1].line
           IN  \/ StartsWith(line, "SENSOR_BATCH") /\ ~WellFormedStart(line)
               \/ StartsWith(line, "SENSOR_RECORD") /\ ~WellFormedRecord(line)
               \/ StartsWith(line, "BATCH_COMPLETE") /\ ~WellFormedComplete(line))
       => batch_state' = batch_state]_vars

----------------------------------------------------------------------------
(* Writers of the link. *)

\* C35: while a caller of send_command is between the write of its command
\* line and the flush that follows it, nothing else is written to the link:
\* the reader thread writes no DATETIME reply and no BATCH_ACK in between.
C35_Original ==
    [][(\E c \in {"c1", "c2"} : pc[c] = "flush") => tx' = tx]_vars

----------------------------------------------------------------------------
(* Responses with pushes in between. *)

\* C36: a LIST_NODES call has returned; the hub had sent NODE_LIST 1 and
\* then the one NODE line, with push and query lines anywhere around them;
\* the reader has read all of it, and no response line was drained or is
\* still queued. Then the Response is the header followed by the NODE line.
C36_Original ==
    (/\ Returned("c1") /\ command["c1"] = "LIST_NODES"
     /\ in_waiting = "" /\ response_queue = <<>> /\ discarded = {}
     /\ {"NODE_LIST 1", "NODE 1 a1b2 SENSOR 1 5"} \subseteq Range(sent)
     /\ SentIndex("NODE_LIST 1") < SentIndex("NODE 1 a1b2 SENSOR 1 5"))
    => result["c1"].lines = <<"NODE_LIST 1", "NODE 1 a1b2 SENSOR 1 5">>

----------------------------------------------------------------------------
(* Termination of a call. *)

\* C37: the lock is held by a caller exactly while that caller is inside the
\* loop of its call, and never for longer than the timeout of the call and
\* the one poll that may be under way when it elapses; a call that has taken
\* the lock ends (it returns or raises) whatever the hub sends, and
\* with a fair lock a caller waiting for the lock gets past the wait.
C37_Finishes ==
    /\ [](\A c \in {"c1", "c2"} :
              /\ command_lock = c <=> pc[c] = "poll"
              /\ pc[c] = "poll" => elapsed[c] <= timeout[c]
              /\ pc[c] = "done" => result[c].kind # "none")
    /\ \A c \in {"c1", "c2"} :
           /\ (pc[c] = "poll") ~> (pc[c] = "done" /\ command_lock # c)
           /\ (pc[c] = "lock") ~> (pc[c] \in {"poll", "done"})

\* the first call was ended by the exception of the completion rule, the
\* lock was released, and the second caller holds it now
C37_Witness ==
    /\ pc["c1"] = "done" /\ result["c1"].kind = "ValueError"
    /\ pc["c2"] = "poll" /\ command_lock = "c2"

----------------------------------------------------------------------------
(* The write buffer under several threads. *)

\* C38: every operation on the buffer either keeps the readings it found,
\* followed by the reading it was given, in the buffer, or hands exactly that
\* list, in that order, to insert_batch in one call and leaves none of it to
\* be handed over again; and while an insert_batch call is in progress the
\* list it was given does not change and no further call is made.
C38_ExactlyOnce ==
    [][/\ conn = "deadlock" =>
              write_buffer'.buffer = write_buffer.buffer /\ flushes' = flushes
       /\ (conn # "deadlock"
           /\ (write_buffer' # write_buffer \/ flushes' # flushes \/ last_op' # last_op)) =>
              LET all == write_buffer.buffer
                             \o (IF last_op'.op = "add" THEN last_op'.arg ELSE <<>>)
              IN  /\ flushes'.n \in {flushes.n, flushes.n + 1}
                  /\ flushes'.n = flushes.n => write_buffer'.buffer = all
                  /\ flushes'.n = flushes.n + 1 =>
                         /\ flushes'.batch = all
                         /\ write_buffer'.buffer =
                                IF conn' = "deadlock" THEN all ELSE <<>>]_vars

\* two different readings, added one after the other, were handed over in
\* one list in that order by the add of the second, after an earlier flush
C38_Witness ==
    /\ last_op.op = "add" /\ last_op.flushed = 1 /\ last_op.returned
    /\ Len(flushes.batch) = 2 /\ flushes.batch[1] # flushes.batch[2]
    /\ flushes.batch = last_op.before \o last_op.arg
    /\ flushes.n = 2
    /\ write_buffer.buffer = <<>>

----------------------------------------------------------------------------
(* The answers of insert_batch and the statistics of the nodes. *)

\* C39: when insert_batch(readings) has returned (inserted, duplicates), the
\* two add up to len(readings), inserted is the number of rows the call
\* added, and duplicates is the number of readings whose (device_id,
\* timestamp) was stored before the call or occurs earlier in the list; also
\* when a statement of the call failed.
C39_Original ==
    (last_op.op = "insert_batch" /\ last_op.returned) =>
        /\ last_op.ret[1] + last_op.ret[2] = Len(last_op.arg)
        /\ last_op.ret[1] = Cardinality(db \ last_op.rows)
        /\ last_op.ret[2] =
               Cardinality({i \in 1..Len(last_op.arg) :
                   \/ \E x \in last_op.rows :
                          /\ x.device_id = last_op.arg[i].device_id
                          /\ x.timestamp = last_op.arg[i].timestamp
                   \/ \E j \in 1..(i - 1) :
                          /\ last_op.arg[j].device_id = last_op.arg[i].device_id
                          /\ last_op.arg[j].timestamp = last_op.arg[i].timestamp})

\* C40: when no thread is inside an insert, every device with stored readings
\* has a nodes row whose total_readings is the number of its stored readings
\* and whose last_seen_at is the greatest of their timestamps.
C40_Original ==
    (\A t \in {"t1", "t2"} : inserting[t].pc \in {"idle", "done"}) =>
        \A d \in {x.device_id : x \in db} :
            /\ d \in DOMAIN nodes_table
            /\ nodes_table[d].total_readings = Cardinality({x \in db : x.device_id = d})
            /\ \E x \in db : x.device_id = d /\ x.timestamp = nodes_table[d].last_seen_at
            /\ \A x \in db : x.device_id = d => x.timestamp <= nodes_table[d].last_seen_at

====
